---- MODULE Spec2Model ----
(***************************************************************************)
(* ChendAI ensemble core: instrument/player factory, orchestration engine, *)
(* spectral synthesis engine and ensemble mixer.                           *)
(*                                                                         *)
(* Units.  Intensities, velocities, contact points, gains, pans, sample    *)
(* amplitudes and membrane tensions are fixed-point numbers in thousandths *)
(* (1000 = 1.0).  Times and durations are microseconds.  Positions are     *)
(* millimetres.                                                            *)
(***************************************************************************)
EXTENDS Integers, Sequences, FiniteSets, TLC

VARIABLES
    rng,          \* state of the numpy global random generator
    pyrng,        \* state of the python `random` module generator
    membraneDb,   \* MEMBRANE_DATABASE: preset name -> MembraneProperties object
    instruments,  \* ChendaInstrument objects returned by create_chenda, in creation order
    snapshots,    \* physical properties each instrument had when create_chenda returned
    players,      \* Ensemble.players: player id -> Player
    events,       \* the input list handed to orchestrate_sequence
    strategy,     \* OrchestrationEngine.strategy
    opc,          \* position inside orchestrate_sequence: "idle", "loop", "done";
                  \* "supplied" once a hand-built pattern is in place
    oi,           \* loop index i of the strategy's for loop
    complexity,   \* local `complexity` of _orchestrate_traditional
    pattern,      \* the OrchestrationPattern being built / returned
    sample_rate,  \* EnsembleMixer.sample_rate and SpectralEngine.sample_rate
    bank,         \* SpectralEngine.db: sound id -> signature
    nUpdates,     \* number of player-setting updates applied so far
    render,       \* outcome of the last render_ensemble call
    sound,        \* outcome of the last direct SpectralEngine.get_sound call
    call,         \* the last direct call of a method (of a Player, WoodProperties,
                  \* the recorder, the undo stack), with its arguments and its
                  \* result; in SpecTrack the _render_player_track call under way
    recorder,     \* the AudioRecorder object of the control panel
    history       \* the UndoStack object

vars == <<rng, pyrng, membraneDb, instruments, snapshots, players, events, strategy,
          opc, oi, complexity, pattern, sample_rate, bank, nUpdates, render, sound,
          call, recorder, history>>

factoryVars == <<membraneDb, instruments, snapshots, players>>
orchVars == <<events, strategy, opc, oi, complexity, pattern>>
mixVars == <<nUpdates, render>>
deskVars == <<recorder, history>>

-----------------------------------------------------------------------------
(* Bounds of the model *)

MaxLen == 2          \* freely composed strokes of an input event list
MaxUpdates == 2      \* player-setting updates before a render
MaxInstruments == 6  \* create_chenda calls in the factory specification
MantissaBits == 11   \* significand bits of the floats the brightness is computed in
MaxTrackEvents == 2  \* events of the player track of SpecTrack
MaxStackSize == 2    \* largest max_size of the UndoStack of SpecUndo

-----------------------------------------------------------------------------
(* Arithmetic helpers *)

Abs(x) == IF x < 0 THEN 0 - x ELSE x

Min2(a, b) == IF a < b THEN a ELSE b

Max2(a, b) == IF a > b THEN a ELSE b

\* Python int(n/d) for d > 0: truncation toward zero
IntTrunc(n, d) == IF n >= 0 THEN n \div d ELSE 0 - ((0 - n) \div d)

\* np.clip
Clip(x, lo, hi) == IF x < lo THEN lo ELSE IF x > hi THEN hi ELSE x

None == "None"

\* value of an Optional[float] field that holds None (outside every numeric range used)
Unset == 0 - 999999

-----------------------------------------------------------------------------
(* Random sources.  Both generators are deterministic in their state; a    *)
(* draw returns a value computed from the state and advances it.  The      *)
(* generator is a small full-period linear congruential generator; the     *)
(* distribution tables map its output to quantiles.                        *)

RngStates == 0 .. 7

PyRngStates == 0 .. 2

RngNext(g) == (5 * g + 3) % 8

PyRngNext(g) == (g + 1) % 3

\* standard normal quantiles, in tenths of a standard deviation
ZTable == <<0 - 30, 0 - 10, 0 - 3, 0, 0, 3, 10, 30>>

\* uniform [0,1) quantiles, in thousandths
UTable == <<0, 142, 285, 428, 570, 713, 856, 999>>

\* np.random.normal(0, sigma) for the generator state g
Normal(g, sigma) == IntTrunc(ZTable[g + 1] * sigma, 10)

\* np.random.uniform(lo, hi) for the generator state g
Uniform(g, lo, hi) == lo + ((hi - lo) * UTable[g + 1]) \div 1000

-----------------------------------------------------------------------------
(* Material presets *)

MembraneKeys == {"cow_high", "cow_medium", "cow_low", "goat_high"}

MEMBRANE_DATABASE ==
    [k \in MembraneKeys |->
        CASE k = "cow_high"   -> [material |-> "cow_leather", thickness |-> 3200,
                                   tension |-> 850, age_months |-> 6]
          [] k = "cow_medium" -> [material |-> "cow_leather", thickness |-> 3500,
                                   tension |-> 650, age_months |-> 12]
          [] k = "cow_low"    -> [material |-> "cow_leather", thickness |-> 4000,
                                   tension |-> 450, age_months |-> 18]
          [] OTHER            -> [material |-> "goat_leather", thickness |-> 2800,
                                   tension |-> 750, age_months |-> 4]]

WoodKeys == {"jackwood", "rosewood", "teak"}

\* density (kg/m3) of the body woods the player factory uses
WOOD_DATABASE ==
    [k \in WoodKeys |->
        CASE k = "jackwood" -> [density |-> 720]
          [] k = "rosewood" -> [density |-> 900]
          [] OTHER          -> [density |-> 680]]

StickKeys == {"bamboo_light", "bamboo_medium", "bamboo_heavy", "teak_medium"}

STICK_DATABASE ==
    [k \in StickKeys |->
        CASE k = "bamboo_light"  -> [mass |-> 85, tip_hardness |-> 70]
          [] k = "bamboo_medium" -> [mass |-> 95, tip_hardness |-> 75]
          [] k = "bamboo_heavy"  -> [mass |-> 110, tip_hardness |-> 78]
          [] OTHER               -> [mass |-> 125, tip_hardness |-> 82]]

\* WoodProperties.resonance_brightness, in thousandths
resonance_brightness(density) == 1000 - (density - 500)

\* Binary floating point with a significand of MantissaBits bits, round to
\* nearest, ties to even (IEEE 754 with a shorter significand).  A float is
\* held as an integer count of units of 2^-20.
FloatUnit == 2 ^ 20

RECURSIVE Pow2From(_, _)
Pow2From(p, x) == IF 2 * p > x THEN p ELSE Pow2From(2 * p, x)

\* the spacing of the floats around num/den, in units
FloatUlp(num, den) ==
    IF Abs(num) \div den < 2 ^ (MantissaBits - 1) THEN 1
    ELSE Pow2From(1, Abs(num) \div den) \div 2 ^ (MantissaBits - 1)

\* num/den rounded to the nearest integer, ties to even
RoundHalfEven(num, den) ==
    LET q == Abs(num) \div den
        r == Abs(num) % den
        up == IF 2 * r > den \/ (2 * r = den /\ q % 2 = 1) THEN q + 1 ELSE q
    IN  IF num < 0 THEN 0 - up ELSE up

\* the float nearest to num/den
FloatRound(num, den) == FloatUlp(num, den) * RoundHalfEven(num, den * FloatUlp(num, den))

\* WoodProperties.resonance_brightness on floats:
\* 1.0 - (self.density - 500) / 1000, every operation rounded
resonance_brightness_float(density) ==
    FloatRound(FloatUnit - FloatRound(FloatRound(density - 500 * FloatUnit, 1), 1000), 1)

\* MembraneProperties.effective_tension, in thousandths
effective_tension(m) == (m.tension * (1000 + (m.age_months * 300) \div 24)) \div 1000

\* get_random_wood_variant: only the density is kept; five draws are consumed
get_random_wood_variant(base_wood, variation, g) ==
    LET d == (WOOD_DATABASE[base_wood].density
                * Uniform(g, 1000 - variation, 1000 + variation)) \div 1000
    IN  [wood |-> [density |-> d],
         rng |-> RngNext(RngNext(RngNext(RngNext(RngNext(g)))))]

-----------------------------------------------------------------------------
(* Instrument factory.  A ChendaInstrument holds REFERENCES to the         *)
(* MembraneProperties objects of MEMBRANE_DATABASE (the preset name stands *)
(* for the object) and to the StickProperties objects of STICK_DATABASE;   *)
(* body and body_wood are fresh objects.                                   *)

\* `obj.tension *= np.random.uniform(0.95, 1.05)` on the object db[key]
ScaleTension(db, key, g) ==
    [db EXCEPT ![key].tension = (@ * Uniform(g, 950, 1050)) \div 1000]

\* InstrumentFactory.create_chenda
create_chenda(chenda_id, base_wood, valam_tension, edamthala_tension, valam_stick, edamthala_stick, db, g) ==
    LET w   == get_random_wood_variant(base_wood, 80, g)
        kv  == IF valam_tension = "high" THEN "cow_high"
               ELSE IF valam_tension = "medium" THEN "cow_medium" ELSE "cow_low"
        ke  == IF edamthala_tension = "high" THEN "cow_high"
               ELSE IF edamthala_tension = "medium" THEN "cow_medium" ELSE "cow_low"
        g1  == w.rng
        db1 == ScaleTension(db, kv, g1)
        g2  == RngNext(g1)
        db2 == ScaleTension(db1, ke, g2)
        g3  == RngNext(g2)
        g4  == RngNext(g3)
        g5  == RngNext(g4)
        body == [wood_type |-> base_wood,
                 length |-> Uniform(g3, 58000, 62000),
                 diameter |-> Uniform(g4, 28000, 32000),
                 wall_thickness |-> Uniform(g5, 2300, 2700)]
    IN  [inst |-> [id |-> chenda_id,
                   body_wood |-> w.wood,
                   membrane_valam |-> kv,
                   membrane_edamthala |-> ke,
                   body |-> body,
                   stick_valam |-> valam_stick,
                   stick_edamthala |-> edamthala_stick],
         db |-> db2,
         rng |-> RngNext(g5)]

\* The physical properties of a ChendaInstrument, read through its references
PhysicalProperties(inst, db) ==
    [body_wood |-> inst.body_wood,
     body |-> inst.body,
     tension_valam |-> db[inst.membrane_valam].tension,
     tension_edamthala |-> db[inst.membrane_edamthala].tension,
     stick_valam |-> STICK_DATABASE[inst.stick_valam],
     stick_edamthala |-> STICK_DATABASE[inst.stick_edamthala]]

\* InstrumentFactory.create_elathaalam: two numpy draws, two python draws
create_elathaalam(elathaalam_id, size, g, pg) ==
    LET lo == IF size = "small" THEN 12000 ELSE IF size = "large" THEN 16000 ELSE 14000
    IN  [inst |-> [id |-> elathaalam_id,
                   diameter |-> Uniform(g, lo, lo + 2000),
                   thickness |-> Uniform(RngNext(g), 1500, 2500),
                   metal_type |-> IF pg % 2 = 0 THEN "bronze" ELSE "brass",
                   age_years |-> 1 + (PyRngNext(pg) % 10)],
         rng |-> RngNext(RngNext(g)),
         pyrng |-> PyRngNext(PyRngNext(pg))]

-----------------------------------------------------------------------------
(* Players *)

PlayerOrder == <<"P1", "P2", "P3", "P4", "P5", "P6">>

PlayerIds == {"P1", "P2", "P3", "P4", "P5", "P6"}

\* variant: __post_init__ tests `if not self.pan`, taking 0.0 for unset
Player_falsy_pan(id, role, instrument_type, instrument, timing, skill_level, dynamic_range, spatial_position, pan) ==
    [id |-> id, role |-> role, instrument_type |-> instrument_type,
     instrument |-> instrument, timing |-> timing, skill_level |-> skill_level,
     dynamic_range |-> dynamic_range, spatial_position |-> spatial_position,
     gain |-> 1000,
     pan |-> IF pan = Unset \/ pan = 0 THEN spatial_position[1] ELSE pan,
     mute |-> FALSE, solo |-> FALSE]

\* Player.__init__ followed by Player.__post_init__
Player(id, role, instrument_type, instrument, timing, skill_level, dynamic_range, spatial_position, pan) ==
    [id |-> id, role |-> role, instrument_type |-> instrument_type,
     instrument |-> instrument, timing |-> timing, skill_level |-> skill_level,
     dynamic_range |-> dynamic_range, spatial_position |-> spatial_position,
     gain |-> 1000,
     pan |-> IF pan = Unset THEN spatial_position[1] ELSE pan,
     mute |-> FALSE, solo |-> FALSE]

\* TimingCharacteristics: precision and rush tendency in thousandths, groove offset
\* in microseconds (the source's milliseconds times 1000)
Timing(base_precision, rush_tendency, groove_offset) ==
    [base_precision |-> base_precision, rush_tendency |-> rush_tendency,
     groove_offset |-> groove_offset]

\* PlayerFactory.create_chenda_lead / _rhythm / _accent: the Player around
\* the instrument object at heap index ref
ChendaPlayer(kind, player_id, ref) ==
    CASE kind = "lead" ->
            Player(player_id, "chenda_lead", "chenda", [kind |-> "chenda", ref |-> ref],
                   Timing(950, 20, 0), 950, <<600, 1000>>, <<0 - 300, 0, 1000>>, Unset)
      [] kind = "rhythm" ->
            Player(player_id, "chenda_rhythm", "chenda", [kind |-> "chenda", ref |-> ref],
                   Timing(980, 0, 0), 920, <<500, 850>>, <<300, 0, 1000>>, Unset)
      [] OTHER ->
            Player(player_id, "chenda_accent", "chenda", [kind |-> "chenda", ref |-> ref],
                   Timing(900, 0 - 10, 0), 900, <<400, 1000>>, <<0, 0, 800>>, Unset)

\* the arguments of the create_chenda call each chenda player factory makes
ChendaArgs(kind) ==
    CASE kind = "lead"   -> <<"jackwood", "high", "medium", "bamboo_medium", "bamboo_heavy">>
      [] kind = "rhythm" -> <<"teak", "medium", "medium", "bamboo_medium", "bamboo_heavy">>
      [] OTHER           -> <<"rosewood", "high", "medium", "teak_medium", "bamboo_heavy">>

\* the create_chenda call of create_chenda_lead / _rhythm / _accent
ChendaFor(kind, player_id, db, g) ==
    create_chenda(player_id, ChendaArgs(kind)[1], ChendaArgs(kind)[2], ChendaArgs(kind)[3],
                  ChendaArgs(kind)[4], ChendaArgs(kind)[5], db, g)

\* PlayerFactory.create_elathaalam_primary / _secondary
CymbalPlayer(kind, player_id, inst) ==
    IF kind = "primary"
    THEN Player(player_id, "elathaalam_primary", "elathaalam",
                [kind |-> "elathaalam", obj |-> inst],
                Timing(930, 0, 0), 900, <<500, 900>>, <<0 - 800, 0, 1200>>, Unset)
    ELSE Player(player_id, "elathaalam_secondary", "elathaalam",
                [kind |-> "elathaalam", obj |-> inst],
                Timing(910, 0, 500), 880, <<400, 800>>, <<800, 0, 1200>>, Unset)

\* PlayerFactory.create_kombu
create_kombu(player_id) ==
    Player(player_id, "kombu", "kombu", [kind |-> "none"],
           Timing(850, 0, 0), 850, <<300, 700>>, <<0, 0, 1500>>, Unset)

\* The factory state st = [db, heap, snaps, rng, pyrng] after a create_chenda
\* call returned c: heap is the sequence of ChendaInstrument objects created
\* so far, snaps the physical properties each had when its create_chenda
\* returned.
Created(st, c) ==
    [st EXCEPT !.db = c.db,
               !.heap = Append(@, c.inst),
               !.snaps = Append(@, PhysicalProperties(c.inst, c.db)),
               !.rng = c.rng]

\* one create_chenda_<kind>(player_id) call of the player factory
AddChenda(st, kind, player_id) == Created(st, ChendaFor(kind, player_id, st.db, st.rng))

\* the two create_elathaalam calls of build_standard_melam and its players
MelamOf(st, n, e4, e5) ==
    [players |-> [p \in PlayerIds |->
                    CASE p = "P1" -> ChendaPlayer("lead", "P1", n + 1)
                      [] p = "P2" -> ChendaPlayer("rhythm", "P2", n + 2)
                      [] p = "P3" -> ChendaPlayer("accent", "P3", n + 3)
                      [] p = "P4" -> CymbalPlayer("primary", "P4", e4.inst)
                      [] p = "P5" -> CymbalPlayer("secondary", "P5", e5.inst)
                      [] OTHER    -> create_kombu("P6")],
     heap |-> st.heap, snaps |-> st.snaps, db |-> st.db,
     rng |-> e5.rng, pyrng |-> e5.pyrng]

AddCymbals(st, n, e4) ==
    MelamOf(st, n, e4, create_elathaalam("P5", "small", e4.rng, e4.pyrng))

\* build_standard_melam from create_elathaalam_primary on
WithCymbals(st, n) == AddCymbals(st, n, create_elathaalam("P4", "medium", st.rng, st.pyrng))

\* Ensemble.build_standard_melam: the six factory calls in dictionary order
build_standard_melam(db, heap, snaps, g, pg) ==
    WithCymbals(
        AddChenda(
            AddChenda(
                AddChenda([db |-> db, heap |-> heap, snaps |-> snaps, rng |-> g, pyrng |-> pg],
                          "lead", "P1"),
                "rhythm", "P2"),
            "accent", "P3"),
        Len(heap))

\* Ensemble.get_player
get_player(ps, player_id) == IF player_id \in DOMAIN ps THEN ps[player_id] ELSE None

\* the ids of the players of ps that satisfy Test, in dictionary order
RECURSIVE IdsFrom(_, _, _)
IdsFrom(ps, k, types) ==
    IF k > Len(PlayerOrder) THEN <<>>
    ELSE LET id == PlayerOrder[k]
         IN  (IF id \in DOMAIN ps /\ ps[id].instrument_type \in types THEN <<id>> ELSE <<>>)
                \o IdsFrom(ps, k + 1, types)

\* Ensemble.get_chenda_players (as ids)
get_chenda_players(ps) == IdsFrom(ps, 1, {"chenda"})

\* Ensemble.get_cymbal_players (as ids)
get_cymbal_players(ps) == IdsFrom(ps, 1, {"elathaalam"})

\* Ensemble.get_players_by_role(role)[0] (as id)
RECURSIVE FirstWithRole(_, _, _)
FirstWithRole(ps, role, k) ==
    IF ps[PlayerOrder[k]].role = role THEN PlayerOrder[k] ELSE FirstWithRole(ps, role, k + 1)

get_players_by_role(ps, role) == FirstWithRole(ps, role, 1)

-----------------------------------------------------------------------------
(* Orchestration engine *)

Strategies == {"traditional", "dynamic", "antiphonal", "unison", "layered"}

\* StrokeEvent(time, stroke_type, sound_category, intensity, duration)
StrokeEvent(time, stroke_type, sound_category, intensity, duration) ==
    [time |-> time, stroke_type |-> stroke_type, sound_category |-> sound_category,
     intensity |-> intensity, duration |-> duration,
     assigned_player |-> None, velocity |-> Unset, contact_point |-> Unset]

\* TimingCharacteristics.get_timing_offset, in microseconds
get_timing_offset(timing, g) ==
    Normal(g, (1000 - timing.base_precision) * 10)
        + timing.rush_tendency * 5
        + timing.groove_offset

\* variant: the velocity without np.clip
get_velocity_for_intensity_unclipped(p, intensity, g) ==
    LET min_vel == p.dynamic_range[1]
        max_vel == p.dynamic_range[2]
        base_velocity == min_vel + IntTrunc(intensity * (max_vel - min_vel), 1000)
        variation == Normal(g, ((1000 - p.skill_level) * 50) \div 1000)
    IN  base_velocity + variation

\* Player.get_velocity_for_intensity
get_velocity_for_intensity(p, intensity, g) ==
    LET min_vel == p.dynamic_range[1]
        max_vel == p.dynamic_range[2]
        base_velocity == min_vel + IntTrunc(intensity * (max_vel - min_vel), 1000)
        variation == Normal(g, ((1000 - p.skill_level) * 50) \div 1000)
    IN  Clip(base_velocity + variation, 0, 1000)

\* variant: one contact range for every intensity
ContactPointOneRange(intensity, g) == Uniform(g, 300, 900)

\* the contact point drawn by _assign_event_to_player
ContactPoint(intensity, g) ==
    IF intensity > 700 THEN Uniform(g, 600, 900) ELSE Uniform(g, 300, 600)

\* variant: the input event itself is updated and returned
assign_event_to_player_in_place(event, p, g) ==
    LET velocity == get_velocity_for_intensity(p, event.intensity, g)
        g1 == RngNext(g)
        adjusted_time == event.time + get_timing_offset(p.timing, g1)
        g2 == RngNext(g1)
        contact_point == ContactPoint(event.intensity, g2)
        assigned == [event EXCEPT !.time = adjusted_time,
                                  !.assigned_player = p.id,
                                  !.velocity = velocity,
                                  !.contact_point = contact_point]
    IN  [event |-> assigned, input |-> assigned, rng |-> RngNext(g2)]

\* OrchestrationEngine._assign_event_to_player: three draws, a fresh event;
\* `input` is the caller's event object as the call leaves it
assign_event_to_player(event, p, g) ==
    LET velocity == get_velocity_for_intensity(p, event.intensity, g)
        g1 == RngNext(g)
        adjusted_time == event.time + get_timing_offset(p.timing, g1)
        g2 == RngNext(g1)
        contact_point == ContactPoint(event.intensity, g2)
    IN  [event |-> [time |-> adjusted_time,
                    stroke_type |-> event.stroke_type,
                    sound_category |-> event.sound_category,
                    intensity |-> event.intensity,
                    duration |-> event.duration,
                    assigned_player |-> p.id,
                    velocity |-> velocity,
                    contact_point |-> contact_point],
         input |-> event,
         rng |-> RngNext(g2)]

\* pattern.chenda_events[id].append(event)
AppendChenda(pat, id, event) ==
    [pat EXCEPT !.chenda_events[id] = Append(@, event)]

\* OrchestrationEngine._add_cymbal_events, from the k-th cymbal on
RECURSIVE add_cymbal_events(_, _, _, _, _, _)
add_cymbal_events(ps, time, cymbals, k, pat, g) ==
    IF k > Len(cymbals) THEN [pattern |-> pat, rng |-> g]
    ELSE LET cymbal == ps[cymbals[k]]
             g1 == RngNext(g)
             cymbal_event ==
                [time |-> time + get_timing_offset(cymbal.timing, g),
                 stroke_type |-> "1",
                 sound_category |-> "NAM",
                 intensity |-> 600,
                 duration |-> 500000,
                 assigned_player |-> cymbal.id,
                 velocity |-> get_velocity_for_intensity(cymbal, 600, g1),
                 contact_point |-> 500]
         IN  add_cymbal_events(ps, time, cymbals, k + 1,
                 [pat EXCEPT !.cymbal_events[cymbal.id] = Append(@, cymbal_event)],
                 RngNext(g1))

\* the non-REST events of a list
NonRest(evs) == SelectSeq(evs, LAMBDA e : e.sound_category # "REST")

RECURSIVE MaxIntensity(_, _)
MaxIntensity(evs, k) ==
    IF k = Len(evs) THEN evs[k].intensity
    ELSE Max2(evs[k].intensity, MaxIntensity(evs, k + 1))

RECURSIVE MinIntensity(_, _)
MinIntensity(evs, k) ==
    IF k = Len(evs) THEN evs[k].intensity
    ELSE Min2(evs[k].intensity, MinIntensity(evs, k + 1))

\* OrchestrationEngine._analyze_pattern_complexity, as the exact fraction
\* num/den of thousandths: (density*0.5 + dynamic_range*0.5) clipped to [0,1]
analyze_pattern_complexity(evs) ==
    IF Len(evs) = 0 THEN [num |-> 0, den |-> 1]
    ELSE LET non_rest == NonRest(evs)
             dynamic_range == IF Len(non_rest) > 0
                              THEN MaxIntensity(non_rest, 1) - MinIntensity(non_rest, 1)
                              ELSE 0
             num == 1000 * Len(non_rest) + dynamic_range * Len(evs)
             den == 2 * Len(evs)
         IN  IF num < 0 THEN [num |-> 0, den |-> 1]
             ELSE IF num > 1000 * den THEN [num |-> 1000, den |-> 1]
             ELSE [num |-> num, den |-> den]

\* OrchestrationEngine._is_structural_beat
is_structural_beat(position, total_length) == position % 4 = 0

\* variant: only Dheem counts as a heavy accent
select_player_traditional_dheem_only(event, position, cx, lead, rhythm, accent) ==
    IF event.intensity > 800
    THEN IF event.stroke_type = "Dheem" THEN accent ELSE lead
    ELSE IF position % 4 = 0 /\ event.intensity < 600 THEN rhythm
    ELSE IF cx.num > 700 * cx.den THEN lead
    ELSE <<lead, rhythm, accent>>[(position % 3) + 1]

\* variant: the complexity rule is tested before the steady-rhythm rule
select_player_traditional_complexity_first(event, position, cx, lead, rhythm, accent) ==
    IF event.intensity > 800
    THEN IF event.stroke_type \in {"Dheem", "Dha"} THEN accent ELSE lead
    ELSE IF cx.num > 700 * cx.den THEN lead
    ELSE IF position % 4 = 0 /\ event.intensity < 600 THEN rhythm
    ELSE <<lead, rhythm, accent>>[(position % 3) + 1]

\* OrchestrationEngine._select_player_traditional (player ids)
select_player_traditional(event, position, cx, lead, rhythm, accent) ==
    LET is_downbeat == position % 4 = 0
    IN  IF event.intensity > 800
        THEN IF event.stroke_type \in {"Dheem", "Dha"} THEN accent ELSE lead
        ELSE IF is_downbeat /\ event.intensity < 600 THEN rhythm
        ELSE IF cx.num > 700 * cx.den THEN lead
        ELSE <<lead, rhythm, accent>>[(position % 3) + 1]

\* variant: the last player, in list order, whose list is shortest
RECURSIVE select_player_by_load_last_on_tie(_, _, _)
select_player_by_load_last_on_tie(ids, pat, k) ==
    IF k = Len(ids) THEN ids[k]
    ELSE LET rest == select_player_by_load_last_on_tie(ids, pat, k + 1)
         IN  IF Len(pat.chenda_events[ids[k]]) < Len(pat.chenda_events[rest])
             THEN ids[k] ELSE rest

\* OrchestrationEngine._select_player_by_load: the first player, in list
\* order, whose list is shortest
RECURSIVE select_player_by_load(_, _, _)
select_player_by_load(ids, pat, k) ==
    IF k = Len(ids) THEN ids[k]
    ELSE LET rest == select_player_by_load(ids, pat, k + 1)
         IN  IF Len(pat.chenda_events[ids[k]]) <= Len(pat.chenda_events[rest])
             THEN ids[k] ELSE rest

\* assign `event` to each player of ids[k..] in turn and append the copies
RECURSIVE AssignAll(_, _, _, _, _, _)
RECURSIVE AppendAssigned(_, _, _, _, _, _)

AppendAssigned(a, ps, event, ids, k, pat) ==
    AssignAll(ps, a.input, ids, k + 1, AppendChenda(pat, ids[k], a.event), a.rng)

AssignAll(ps, event, ids, k, pat, g) ==
    IF k > Len(ids) THEN [pattern |-> pat, rng |-> g, input |-> event]
    ELSE AppendAssigned(assign_event_to_player(event, ps[ids[k]], g), ps, event, ids, k, pat)

\* the empty OrchestrationPattern each strategy starts from
NewPattern(ps) ==
    [chenda_events |-> [id \in {x \in PlayerIds : ps[x].instrument_type = "chenda"} |-> <<>>],
     cymbal_events |-> [id \in {x \in PlayerIds : ps[x].instrument_type = "elathaalam"} |-> <<>>],
     wind_events |-> [id \in {} |-> <<>>]]

\* the loop body's result: the pattern and generator of c, the input event e
WithInput(c, e) == [pattern |-> c.pattern, rng |-> c.rng, input |-> e]

\* the cymbal hits a strategy adds, at event.time, after the chenda
\* assignment r of an event
CymbalsAfter(ps, r, with_cymbals) ==
    IF with_cymbals
    THEN WithInput(add_cymbal_events(ps, r.input.time, get_cymbal_players(ps), 1,
                                     r.pattern, r.rng), r.input)
    ELSE r

\* the tail of a strategy's loop body for a non-REST event: the event is
\* assigned to the chosen players and appended, then the cymbals are added
AssignTo(ps, event, ids, with_cymbals, pat, g) ==
    CymbalsAfter(ps, AssignAll(ps, event, ids, 1, pat, g), with_cymbals)

\* one iteration of the for loop of _orchestrate_traditional
orchestrate_traditional(ps, evs, i, cx, pat, g) ==
    IF evs[i + 1].sound_category = "REST" THEN [pattern |-> pat, rng |-> g, input |-> evs[i + 1]]
    ELSE AssignTo(ps, evs[i + 1],
                  <<select_player_traditional(evs[i + 1], i, cx,
                        get_players_by_role(ps, "chenda_lead"),
                        get_players_by_role(ps, "chenda_rhythm"),
                        get_players_by_role(ps, "chenda_accent"))>>,
                  is_structural_beat(i, Len(evs)), pat, g)

\* one iteration of the for loop of _orchestrate_dynamic
orchestrate_dynamic(ps, evs, i, pat, g) ==
    IF evs[i + 1].sound_category = "REST" THEN [pattern |-> pat, rng |-> g, input |-> evs[i + 1]]
    ELSE AssignTo(ps, evs[i + 1], <<select_player_by_load(get_chenda_players(ps), pat, 1)>>,
                  i % 8 = 0, pat, g)

\* variant: the response of an odd phrase alternates accent / rhythm
orchestrate_antiphonal_swapped_response(ps, evs, i, pat, g) ==
    LET phrase_num == i \div 4
        player == IF phrase_num % 2 = 0 THEN get_players_by_role(ps, "chenda_lead")
                  ELSE IF i % 2 = 0 THEN get_players_by_role(ps, "chenda_accent")
                  ELSE get_players_by_role(ps, "chenda_rhythm")
    IN  IF evs[i + 1].sound_category = "REST" THEN [pattern |-> pat, rng |-> g, input |-> evs[i + 1]]
        ELSE AssignTo(ps, evs[i + 1], <<player>>, FALSE, pat, g)

\* one iteration of the for loop of _orchestrate_antiphonal
orchestrate_antiphonal(ps, evs, i, pat, g) ==
    LET phrase_num == i \div 4
        player == IF phrase_num % 2 = 0 THEN get_players_by_role(ps, "chenda_lead")
                  ELSE IF i % 2 = 0 THEN get_players_by_role(ps, "chenda_rhythm")
                  ELSE get_players_by_role(ps, "chenda_accent")
    IN  IF evs[i + 1].sound_category = "REST" THEN [pattern |-> pat, rng |-> g, input |-> evs[i + 1]]
        ELSE AssignTo(ps, evs[i + 1], <<player>>, FALSE, pat, g)

\* variant: only the first chenda player plays
orchestrate_unison_first_only(ps, evs, i, pat, g) ==
    IF evs[i + 1].sound_category = "REST" THEN [pattern |-> pat, rng |-> g, input |-> evs[i + 1]]
    ELSE AssignTo(ps, evs[i + 1], <<get_chenda_players(ps)[1]>>,
                  is_structural_beat(i, Len(evs)), pat, g)

\* one iteration of the for loop of _orchestrate_unison
orchestrate_unison(ps, evs, i, pat, g) ==
    IF evs[i + 1].sound_category = "REST" THEN [pattern |-> pat, rng |-> g, input |-> evs[i + 1]]
    ELSE AssignTo(ps, evs[i + 1], get_chenda_players(ps),
                  is_structural_beat(i, Len(evs)), pat, g)

\* variant: entry points at a third and two thirds of the input
active_players_by_thirds(ps, n, i) ==
    LET chenda_players == get_chenda_players(ps)
        entry_points == <<0, n \div 3, (2 * n) \div 3>>
        Entered(idx) == i >= entry_points[idx] /\ idx <= Len(chenda_players)
    IN  (IF Entered(1) THEN <<chenda_players[1]>> ELSE <<>>)
            \o (IF Entered(2) THEN <<chenda_players[2]>> ELSE <<>>)
            \o (IF Entered(3) THEN <<chenda_players[3]>> ELSE <<>>)

\* the players of _orchestrate_layered that have entered at position i
active_players(ps, n, i) ==
    LET chenda_players == get_chenda_players(ps)
        entry_points == <<0, n \div 4, n \div 2>>
        Entered(idx) == i >= entry_points[idx] /\ idx <= Len(chenda_players)
    IN  (IF Entered(1) THEN <<chenda_players[1]>> ELSE <<>>)
            \o (IF Entered(2) THEN <<chenda_players[2]>> ELSE <<>>)
            \o (IF Entered(3) THEN <<chenda_players[3]>> ELSE <<>>)

\* variant: the loop body without the rest test
orchestrate_layered_no_rest_test(ps, evs, i, pat, g) ==
    AssignTo(ps, evs[i + 1], active_players(ps, Len(evs), i), FALSE, pat, g)

\* one iteration of the for loop of _orchestrate_layered
orchestrate_layered(ps, evs, i, pat, g) ==
    IF evs[i + 1].sound_category = "REST" THEN [pattern |-> pat, rng |-> g, input |-> evs[i + 1]]
    ELSE AssignTo(ps, evs[i + 1], active_players(ps, Len(evs), i), FALSE, pat, g)

-----------------------------------------------------------------------------
(* Sample buffers: sequences of amplitudes in thousandths *)

\* a function on 1 .. n as the array of its values
Array(f) == <<>> \o f

Zeros(n) == Array([k \in 1 .. n |-> 0])

\* buf[:n]
Take(buf, n) == SubSeq(buf, 1, Min2(n, Len(buf)))

\* buf[n:]
Drop(buf, n) == SubSeq(buf, n + 1, Len(buf))

\* np.max(np.abs(buf)) of a non-empty buffer; 0 stands in for the empty one,
\* which the callers test first
PeakOf(buf) ==
    IF Len(buf) = 0 THEN 0
    ELSE CHOOSE m \in {Abs(buf[k]) : k \in 1 .. Len(buf)} :
            \A k \in 1 .. Len(buf) : Abs(buf[k]) <= m

\* buf * num / den, sample-wise
Scale(buf, num, den) == Array([k \in 1 .. Len(buf) |-> IntTrunc(buf[k] * num, den)])

\* a + b for buffers of one length
AddBuf(a, b) == Array([k \in 1 .. Len(a) |-> a[k] + b[k]])

\* int(seconds * sample_rate) for a time in microseconds; a negative result
\* is a negative sample count
SamplesOf(t, sr) == IntTrunc(t * sr, 1000000)

-----------------------------------------------------------------------------
(* Spectral engine.  A signature of the bank is its category and the       *)
(* un-normalized strike waveform its partials add up to (`shape`; the      *)
(* partials have decayed to nothing after it).  A signature whose partial  *)
(* amplitudes are all below the kernel's 0.001 threshold has an empty      *)
(* shape.                                                                  *)

BankOrder == <<"THAAM_VAR_0000", "THAAM_VAR_0001", "DHEEM_VAR_0000", "NAM_VAR_0000",
               "CHAPU_VAR_0000">>

\* the database file as the generator writes it
StandardBank ==
    [id \in {BankOrder[k] : k \in 1 .. Len(BankOrder)} |->
        CASE id = "THAAM_VAR_0000" -> [cat |-> "THAAM", shape |-> <<800, 0 - 400, 200>>]
          [] id = "THAAM_VAR_0001" -> [cat |-> "THAAM", shape |-> <<0 - 600, 300>>]
          [] id = "DHEEM_VAR_0000" -> [cat |-> "DHEEM", shape |-> <<1000, 500, 0 - 250, 100>>]
          [] id = "NAM_VAR_0000"   -> [cat |-> "NAM", shape |-> <<500, 0 - 500>>]
          [] OTHER                 -> [cat |-> "CHAPU", shape |-> <<>>]]

\* self.db after load_db found no database file
EmptyBank == [id \in {} |-> [cat |-> "", shape |-> <<>>]]

\* candidates = [k for k, v in self.db.items() if v['cat'] == category]
Candidates(db, category) ==
    SelectSeq(BankOrder, LAMBDA id : id \in DOMAIN db /\ db[id].cat = category)

\* synthesize_additive for num_samples >= 0: the waveform of the (detuned)
\* partials, normalized to `velocity` unless silent
synthesize_additive(shape, detune, num_samples, velocity) ==
    LET raw == Array([k \in 1 .. num_samples |->
                        IF k <= Len(shape) THEN IntTrunc(shape[k] * detune, 1000) ELSE 0])
        max_val == PeakOf(raw)
    IN  IF max_val > 0 THEN Scale(raw, velocity, max_val) ELSE raw

\* the layer after the size fix-up and the timing shift of get_sound
ShiftLayer(layer0, target_samples, timing_offset, sr) ==
    LET layer == IF Len(layer0) < target_samples
                 THEN layer0 \o Zeros(target_samples - Len(layer0))
                 ELSE Take(layer0, target_samples)
        offset_samples == SamplesOf(Abs(timing_offset), sr)
    IN  IF timing_offset > 0 /\ offset_samples > 0
        THEN Take(Zeros(offset_samples) \o layer, target_samples)
        ELSE IF timing_offset < 0 /\ offset_samples > 0
        THEN Take(Drop(layer \o Zeros(offset_samples), offset_samples), target_samples)
        ELSE layer

\* ensemble += layer, under the safety check on the layer's length
AddLayer(acc, layer, target_samples) ==
    IF Len(layer) = target_samples
    THEN [buf |-> AddBuf(acc.buf, layer), layers |-> acc.layers + 1]
    ELSE acc

\* the loop `for i in range(num_drummers)` of get_sound from drummer k on,
\* followed by the mix loop: the sum of the layers of the right length
RECURSIVE MixLayers(_, _, _, _, _, _, _, _, _)
MixLayers(db, candidates, velocity, target_samples, sr, k, acc, g, pg) ==
    IF k > 4 THEN [buf |-> acc.buf, layers |-> acc.layers, rng |-> g, pyrng |-> pg]
    ELSE LET sound_id == candidates[(pg % Len(candidates)) + 1]
             detune == 1000 + Normal(g, 15)
             timing_offset == Normal(RngNext(g), 8000)
             layer0 == synthesize_additive(db[sound_id].shape, detune, target_samples,
                           IntTrunc(velocity * Uniform(RngNext(RngNext(g)), 900, 1100), 1000))
         IN  MixLayers(db, candidates, velocity, target_samples, sr, k + 1,
                       AddLayer(acc, ShiftLayer(layer0, target_samples, timing_offset, sr),
                                target_samples),
                       RngNext(RngNext(RngNext(g))), PyRngNext(pg))

\* the normalization of the mixed ensemble; np.max of the empty ensemble
\* raises ValueError (line 106)
NormalizeEnsemble(mixed, velocity, max_val) ==
    IF Len(mixed.buf) = 0
    THEN [status |-> "raise", buf |-> <<>>, layers |-> mixed.layers,
          rng |-> mixed.rng, pyrng |-> mixed.pyrng]
    ELSE [status |-> "ok",
          buf |-> IF max_val > 0 THEN Scale(mixed.buf, velocity, max_val) ELSE mixed.buf,
          layers |-> mixed.layers, rng |-> mixed.rng, pyrng |-> mixed.pyrng]

EnsembleOf(mixed, velocity) == NormalizeEnsemble(mixed, velocity, PeakOf(mixed.buf))

\* SpectralEngine.get_sound.  status "raise" is an exception leaving the call:
\* np.zeros(n) with n < 0 raises ValueError (no candidates: line 49; with
\* candidates: the kernel's np.zeros, line 124, after the first layer's draws).
get_sound(db, category, velocity, duration, sr, g, pg) ==
    IF Len(Candidates(db, category)) = 0 /\ SamplesOf(duration, sr) < 0
    THEN [status |-> "raise", buf |-> <<>>, layers |-> 0, rng |-> g, pyrng |-> pg]
    ELSE IF SamplesOf(duration, sr) < 0
    THEN [status |-> "raise", buf |-> <<>>, layers |-> 0,
          rng |-> RngNext(RngNext(RngNext(g))), pyrng |-> PyRngNext(pg)]
    ELSE IF Len(Candidates(db, category)) = 0
    THEN [status |-> "ok", buf |-> Zeros(SamplesOf(duration, sr)), layers |-> 0,
          rng |-> g, pyrng |-> pg]
    ELSE EnsembleOf(MixLayers(db, Candidates(db, category), velocity,
                              SamplesOf(duration, sr), sr, 1,
                              [buf |-> Zeros(SamplesOf(duration, sr)), layers |-> 0],
                              g, pg),
                    velocity)

-----------------------------------------------------------------------------
(* Stick physics and material post-processing.  The Butterworth sections   *)
(* of the source are first-order filters; they are modelled by a one-pole  *)
(* smoother whose coefficient does not depend on the sample rate.          *)

RECURSIVE RngIter(_, _)
RngIter(g, n) == IF n <= 0 THEN g ELSE RngIter(RngNext(g), n - 1)

\* the float sample NaN (outside every sample range used); an arithmetic
\* operation on NaN gives NaN
NaN == 0 - 777777

\* np.isnan(buf).any()
HasNaN(buf) == \E k \in 1 .. Len(buf) : buf[k] = NaN

RECURSIVE LowPass(_, _, _)
LowPass(x, k, prev) ==
    IF k > Len(x) THEN <<>>
    ELSE LET y == IF x[k] = NaN \/ prev = NaN THEN NaN ELSE IntTrunc(x[k] + prev, 2)
         IN  <<y>> \o LowPass(x, k + 1, y)

\* a first-order low-pass / high-pass section applied by sosfilt
Filtered(x, btype) ==
    LET low == LowPass(x, 1, 0)
    IN  IF btype = "low" THEN low
        ELSE Array([k \in 1 .. Len(x) |-> IF low[k] = NaN THEN NaN ELSE x[k] - low[k]])

\* signal * (1 - blend) + filtered * blend
Blend(x, f, blend) ==
    Array([k \in 1 .. Len(x) |->
            IF x[k] = NaN \/ f[k] = NaN THEN NaN
            ELSE IntTrunc(x[k] * (1000 - blend) + f[k] * blend, 1000)])

\* StickProperties.impact_brightness, in thousandths
impact_brightness(stick) == stick.tip_hardness * 10

\* physical_modeling.generate_transient scaled by the transient energy: one
\* normal draw per sample, under a decaying envelope
generate_impact_transient(energy, n, g) ==
    IF energy < 10 THEN [buf |-> Zeros(n), rng |-> g]
    ELSE IF n < 1 THEN [buf |-> <<>>, rng |-> g]
    ELSE [buf |-> Array([k \in 1 .. n |-> IntTrunc(Normal(RngIter(g, k - 1), energy), k)]),
          rng |-> RngIter(g, n)]

\* StickImpactModeler.generate_stick_resonance: a damped sinusoid that
\* starts at phase 0
generate_stick_resonance(energy, n) ==
    IF energy < 10 THEN Zeros(n)
    ELSE Array([k \in 1 .. n |-> IF k = 1 THEN 0 ELSE IntTrunc(energy, k)])

\* stick_physics.create_complete_strike_profile: the fields the mixer reads
create_complete_strike_profile(stick, membrane, velocity, contact_point, sr, g) ==
    LET brightness == impact_brightness(stick)
        contact_duration == 1000000 \div brightness
        transient_energy == IntTrunc(IntTrunc(brightness * velocity, 1000) * 300, 1000)
        stick_resonance_energy == IntTrunc(velocity, 10)
        tr == generate_impact_transient(transient_energy, SamplesOf(50000, sr), g)
    IN  [pitch_bend_amount |-> IntTrunc((1000 - effective_tension(membrane)) * 150, 1000),
         pitch_bend_duration |-> contact_duration * 3,
         transient_waveform |-> tr.buf,
         stick_resonance_waveform |->
            generate_stick_resonance(stick_resonance_energy, SamplesOf(100000, sr)),
         contact_point |-> contact_point,
         rng |-> tr.rng]

\* EnsembleMixer._apply_pitch_bend: the first bend_samples samples are
\* resampled (linear interpolation at t / (1 - bend/2), zero outside)
apply_pitch_bend(audio, bend_amount, bend_duration, sr) ==
    LET bend_samples == Min2(SamplesOf(bend_duration, sr), Len(audio))
        Pos(k) == ((k - 1) * 2000 * 1000) \div (2000 - bend_amount)
        At(k) == LET i == Pos(k) \div 1000
                     f == Pos(k) % 1000
                 IN  IF i + 1 > bend_samples - 1 THEN (IF i + 1 = bend_samples /\ f = 0
                                                        THEN audio[i + 1] ELSE 0)
                     ELSE IntTrunc(audio[i + 1] * (1000 - f) + audio[i + 2] * f, 1000)
    IN  IF bend_samples < 10 THEN audio
        ELSE IF Pos(bend_samples) < bend_samples * 1000
        THEN Array([k \in 1 .. Len(audio) |-> IF k <= bend_samples THEN At(k) ELSE audio[k]])
        ELSE audio

\* EnsembleMixer._apply_wood_character; sosfilt raises ValueError on an
\* empty buffer (it reshapes its input to (-1, 0))
apply_wood_character(audio, brightness) ==
    IF brightness > 600
    THEN IF Len(audio) = 0 THEN [status |-> "raise", buf |-> <<>>]
         ELSE [status |-> "ok",
               buf |-> Blend(audio, Filtered(audio, "high"), (brightness - 600) \div 2)]
    ELSE IF brightness < 400
    THEN IF Len(audio) = 0 THEN [status |-> "raise", buf |-> <<>>]
         ELSE [status |-> "ok",
               buf |-> Blend(audio, Filtered(audio, "low"), (400 - brightness) \div 2)]
    ELSE [status |-> "ok", buf |-> audio]

\* StickImpactModeler.apply_contact_point_filtering
apply_contact_point_filtering(audio, contact_point) ==
    IF Len(audio) = 0 THEN [status |-> "raise", buf |-> <<>>]
    ELSE IF contact_point > 500
    THEN [status |-> "ok",
          buf |-> Blend(audio, Filtered(audio, "high"), ((contact_point - 500) * 400) \div 1000)]
    ELSE [status |-> "ok",
          buf |-> Blend(audio, Filtered(audio, "low"), ((500 - contact_point) * 400) \div 1000)]

\* the contact-point stage of _apply_material_effects
ContactStage(wooded, contact_point) ==
    IF wooded.status = "raise" THEN wooded
    ELSE apply_contact_point_filtering(wooded.buf, contact_point)

\* EnsembleMixer._apply_material_effects
apply_material_effects(audio, profile, wood, sr) ==
    ContactStage(
        apply_wood_character(
            IF profile.pitch_bend_amount > 10
            THEN apply_pitch_bend(audio, profile.pitch_bend_amount,
                                  profile.pitch_bend_duration, sr)
            ELSE audio,
            resonance_brightness(wood.density)),
        profile.contact_point)

\* StudioFX._run_board with the board of the import fallback
\* (MockPedal.process returns its input)
run_board(audio) ==
    IF HasNaN(audio) THEN Zeros(Len(audio))
    ELSE IF PeakOf(audio) > 1000 THEN Scale(audio, 1000, PeakOf(audio))
    ELSE audio

\* modified_sound[:n] += wave[:n] * factor with n = min(len(wave), len(modified_sound))
AddWave(buf, wave, factor) ==
    Array([k \in 1 .. Len(buf) |->
            IF k <= Len(wave) THEN buf[k] + IntTrunc(wave[k] * factor, 1000) ELSE buf[k]])

-----------------------------------------------------------------------------
(* Ensemble mixer *)

\* EnsembleMixer._synthesize_cymbal_strike and _synthesize_basic
synthesize_basic(db, category, event, sr, g, pg) ==
    IF event.velocity = Unset
    THEN [status |-> "raise", buf |-> <<>>, rng |-> g, pyrng |-> pg]
    ELSE get_sound(db, category, event.velocity, event.duration, sr, g, pg)

\* _synthesize_chenda_strike from "Add transient" on
MixStrike(modified, base_sound, strike_profile) ==
    IF modified.status = "raise"
    THEN [status |-> "raise", buf |-> <<>>,
          rng |-> base_sound.rng, pyrng |-> base_sound.pyrng]
    ELSE [status |-> "ok",
          buf |-> AddWave(AddWave(modified.buf, strike_profile.transient_waveform, 300),
                          strike_profile.stick_resonance_waveform, 150),
          rng |-> base_sound.rng, pyrng |-> base_sound.pyrng]

\* _synthesize_chenda_strike from "Apply material modifications" on
ModifyStrike(base_sound, strike_profile, body_wood, sr) ==
    IF base_sound.status = "raise" THEN base_sound
    ELSE MixStrike(apply_material_effects(base_sound.buf, strike_profile, body_wood, sr),
                   base_sound, strike_profile)

\* _synthesize_chenda_strike from "Get base spectral sound" on
StrikeWith(strike_profile, event, body_wood, db, sr, pg) ==
    ModifyStrike(get_sound(db, event.sound_category, event.velocity, event.duration,
                           sr, strike_profile.rng, pg),
                 strike_profile, body_wood, sr)

\* EnsembleMixer._synthesize_chenda_strike.  An event whose velocity or
\* contact point is None raises TypeError in the strike profile.
synthesize_chenda_strike(player, event, heap, mdb, db, sr, g, pg) ==
    LET instrument == heap[player.instrument.ref]
        valam == event.sound_category \in {"THAAM", "CHAPU"}
        membrane == IF valam THEN mdb[instrument.membrane_valam]
                    ELSE mdb[instrument.membrane_edamthala]
        stick == IF valam THEN STICK_DATABASE[instrument.stick_valam]
                 ELSE STICK_DATABASE[instrument.stick_edamthala]
    IN  IF player.instrument.kind # "chenda"
        THEN synthesize_basic(db, event.sound_category, event, sr, g, pg)
        ELSE IF event.velocity = Unset \/ event.contact_point = Unset
        THEN [status |-> "raise", buf |-> <<>>, rng |-> g, pyrng |-> pg]
        ELSE StrikeWith(create_complete_strike_profile(stick, membrane, event.velocity,
                            event.contact_point, sr, g),
                        event, instrument.body_wood, db, sr, pg)

\* variant: every player that holds no chenda is synthesized as a cymbal
SynthesizeFor_wind_as_cymbal(player, event, heap, mdb, db, sr, g, pg) ==
    IF player.instrument_type = "chenda"
    THEN synthesize_chenda_strike(player, event, heap, mdb, db, sr, g, pg)
    ELSE synthesize_basic(db, "NAM", event, sr, g, pg)

\* the sound _render_player_track synthesizes for one event
SynthesizeFor(player, event, heap, mdb, db, sr, g, pg) ==
    IF player.instrument_type = "chenda"
    THEN synthesize_chenda_strike(player, event, heap, mdb, db, sr, g, pg)
    ELSE IF player.instrument_type = "elathaalam"
    THEN synthesize_basic(db, "NAM", event, sr, g, pg)
    ELSE [status |-> "ok", buf |-> Zeros(SamplesOf(100000, sr)), rng |-> g, pyrng |-> pg]

\* track[start_sample:end_sample] += sound[:sound_length]
Accumulate(track, snd, start_sample) ==
    Array([k \in 1 .. Len(track) |->
            IF k > start_sample /\ k - start_sample <= Len(snd)
            THEN track[k] + snd[k - start_sample] ELSE track[k]])

\* variant: the start sample is not clamped at 0
PlaceSound_unclamped_start(track, snd, time, sr) ==
    LET num_samples == Len(track)
        start_sample == SamplesOf(time, sr)
    IN  IF Len(snd) = 0 THEN track
        ELSE IF start_sample >= num_samples THEN track
        ELSE Accumulate(track, snd, start_sample)

\* the placement of one synthesized sound in _render_player_track
PlaceSound(track, snd, time, sr) ==
    LET num_samples == Len(track)
        start_sample == Max2(0, SamplesOf(time, sr))
    IN  IF Len(snd) = 0 THEN track
        ELSE IF start_sample >= num_samples THEN track
        ELSE Accumulate(track, snd, start_sample)

\* EnsembleMixer._render_player_track from event k on.  synth collects the
\* events handed to a synthesize function.  An exception raised while an
\* event is synthesized leaves the loop and the method.
RECURSIVE render_player_track(_, _, _, _, _, _, _, _, _, _, _)
RECURSIVE PlaceEvent(_, _, _, _, _, _, _, _, _, _)

\* the rest of the loop body once the sound of event k is there
PlaceEvent(snd, player, evs, k, track, synth, heap, mdb, db, sr) ==
    IF snd.status = "raise"
    THEN [status |-> "raise", track |-> track, synth |-> Append(synth, evs[k]),
          rng |-> snd.rng, pyrng |-> snd.pyrng]
    ELSE render_player_track(player, evs, k + 1,
             PlaceSound(track, snd.buf, evs[k].time, sr),
             Append(synth, evs[k]), heap, mdb, db, sr, snd.rng, snd.pyrng)

render_player_track(player, evs, k, track, synth, heap, mdb, db, sr, g, pg) ==
    IF k > Len(evs)
    THEN [status |-> "ok", track |-> track, synth |-> synth, rng |-> g, pyrng |-> pg]
    ELSE IF evs[k].sound_category = "REST"
    THEN render_player_track(player, evs, k + 1, track, synth, heap, mdb, db, sr, g, pg)
    ELSE PlaceEvent(SynthesizeFor(player, evs[k], heap, mdb, db, sr, g, pg),
                    player, evs, k, track, synth, heap, mdb, db, sr)

\* integer square root by bisection
RECURSIVE SqrtBetween(_, _, _)
SqrtBetween(n, lo, hi) ==
    IF lo >= hi THEN lo
    ELSE LET mid == (lo + hi + 1) \div 2
         IN  IF mid * mid <= n THEN SqrtBetween(n, mid, hi) ELSE SqrtBetween(n, lo, mid - 1)

ISqrt(n) == SqrtBetween(n, 0, 40000)

\* sin(u * pi/2) for u in [0,1], thousandths (Bhaskara's approximation)
SinQuarter(u) ==
    LET w == (u * (2000 - u)) \div 1000
    IN  (4000 * w) \div (5000 - w)

\* tanh(x), thousandths (Pade approximant inside |x| <= 3, 1 outside)
Tanh(x) ==
    LET q == (x * x) \div 1000
    IN  IF x >= 3000 THEN 1000
        ELSE IF x <= 0 - 3000 THEN 0 - 1000
        ELSE IntTrunc(x * (27000 + q), 27000 + 9 * q)

\* np.pad(channel, (delay, 0))[:-delay]
Delayed(channel, delay) == Take(Zeros(delay) \o channel, Len(channel))

\* EnsembleMixer._apply_spatial_position
apply_spatial_position(mono, position, sr) ==
    LET x == position[1]
        y == position[2]
        z == position[3]
        pan == Clip(x, 0 - 1000, 1000)
        distance == Max2(100, ISqrt(x * x + y * y + z * z))
        attenuation == Clip(1000000 \div distance, 500, 2000)
        u == (pan + 1000) \div 2
        left_gain == (SinQuarter(1000 - u) * attenuation) \div 1000
        right_gain == (SinQuarter(u) * attenuation) \div 1000
        left == Scale(mono, left_gain, 1000)
        right == Scale(mono, right_gain, 1000)
        delay_samples == IntTrunc((z - 500) * sr, 343000)
    IN  IF z > 500 /\ delay_samples > 0 /\ delay_samples < 100
        THEN <<Delayed(left, delay_samples), Delayed(right, delay_samples)>>
        ELSE <<left, right>>

\* the keys of get_all_player_events(), in dictionary order
PatternKeys(pat) ==
    SelectSeq(PlayerOrder,
              LAMBDA id : id \in DOMAIN pat.chenda_events \/ id \in DOMAIN pat.cymbal_events
                            \/ id \in DOMAIN pat.wind_events)

\* OrchestrationPattern.get_all_player_events()[id]
EventsOf(pat, id) ==
    IF id \in DOMAIN pat.wind_events THEN pat.wind_events[id]
    ELSE IF id \in DOMAIN pat.cymbal_events THEN pat.cymbal_events[id]
    ELSE pat.chenda_events[id]

\* solo_active = any(p.solo for p in all_players if p)
solo_active(ps, pat) ==
    \E k \in 1 .. Len(PatternKeys(pat)) : ps[PatternKeys(pat)[k]].solo

\* whether the player loop of render_ensemble renders this player
Renders(ps, pat, id, solo) ==
    /\ Len(EventsOf(pat, id)) > 0
    /\ ~(ps[id].mute /\ ~ps[id].solo)
    /\ ~(solo /\ ~ps[id].solo)

\* variant: the stem is the track without .copy(), so the in-place gain
\* reaches it
MixTrack_stem_aliased(t, acc, player, gained, lr, spatial) ==
    [acc EXCEPT
        !.contributors = Append(@, player.id),
        !.synth = @ \o t.synth,
        !.stems = @ \o <<[id |-> player.id, track |-> gained]>>,
        !.bus = IF spatial
                THEN <<AddBuf(@[1], lr[1]), AddBuf(@[2], lr[2])>>
                ELSE <<AddBuf(@[1], gained)>>]

\* one rendered track on its way to the buses: the stem copy, the gain, the
\* spatial position
MixTrack(t, acc, player, gained, lr, spatial) ==
    [acc EXCEPT
        !.contributors = Append(@, player.id),
        !.synth = @ \o t.synth,
        !.stems = @ \o <<[id |-> player.id, track |-> t.track]>>,
        !.bus = IF spatial
                THEN <<AddBuf(@[1], lr[1]), AddBuf(@[2], lr[2])>>
                ELSE <<AddBuf(@[1], gained)>>]

PositionTrack(t, acc, player, gained, spatial, sr) ==
    MixTrack(t, acc, player, gained,
             IF spatial
             THEN apply_spatial_position(gained,
                      <<player.pan, player.spatial_position[2], player.spatial_position[3]>>,
                      sr)
             ELSE <<>>,
             spatial)

\* the player loop of render_ensemble from key k on: the buses, the stems,
\* the players rendered and the events synthesized
RECURSIVE RenderPlayers(_, _, _, _, _, _, _, _, _, _, _, _)
RECURSIVE AfterTrack(_, _, _, _, _, _, _, _, _, _, _)

\* the rest of the loop body once the track of player keys[k] is there
AfterTrack(t, ps, pat, keys, k, acc, heap, mdb, db, sr, spatial) ==
    IF t.status = "raise"
    THEN [acc EXCEPT !.status = "raise", !.synth = @ \o t.synth,
                     !.rng = t.rng, !.pyrng = t.pyrng]
    ELSE RenderPlayers(ps, pat, keys, k + 1,
             PositionTrack(t, acc, ps[keys[k]], Scale(t.track, ps[keys[k]].gain, 1000),
                           spatial, sr),
             heap, mdb, db, sr, spatial, t.rng, t.pyrng)

RenderPlayers(ps, pat, keys, k, acc, heap, mdb, db, sr, spatial, g, pg) ==
    IF k > Len(keys) THEN [acc EXCEPT !.rng = g, !.pyrng = pg]
    ELSE IF ~Renders(ps, pat, keys[k], solo_active(ps, pat))
    THEN RenderPlayers(ps, pat, keys, k + 1, acc, heap, mdb, db, sr, spatial, g, pg)
    ELSE AfterTrack(render_player_track(ps[keys[k]], EventsOf(pat, keys[k]), 1,
                        Zeros(acc.num_samples), <<>>, heap, mdb, db, sr, g, pg),
                    ps, pat, keys, k, acc, heap, mdb, db, sr, spatial)

\* peak over all channels of a bus
BusPeak(bus) ==
    IF Len(bus) = 2 THEN Max2(PeakOf(bus[1]), PeakOf(bus[2])) ELSE PeakOf(bus[1])

\* the drive of the saturation stage, thousandths
Drive(spatial, peak_pre) == IF spatial THEN (IF peak_pre < 500 THEN 1500 ELSE 1000) ELSE 1200

\* the final safety normalize: stereo / peak_post * 0.98 when peak_post > 0.98
Normalize(bus) ==
    LET peak_post == BusPeak(bus)
    IN  IF peak_post > 980
        THEN [c \in 1 .. Len(bus) |-> Scale(bus[c], 980, peak_post)]
        ELSE bus

\* the mastering chain of render_ensemble on a bus with at least one sample
Master(bus, spatial) ==
    LET peak_pre == BusPeak(bus)
        driven == [c \in 1 .. Len(bus) |->
                     Array([k \in 1 .. Len(bus[c]) |->
                             Tanh(IntTrunc(bus[c][k] * Drive(spatial, peak_pre), 1000))])]
    IN  IF peak_pre > 0 THEN Normalize(driven) ELSE bus

\* render_ensemble from the mastering chain on; np.max raises ValueError on
\* a bus without samples
MasterStage(r, spatial, return_stems) ==
    IF r.status = "raise" THEN r
    ELSE IF r.num_samples = 0 THEN [r EXCEPT !.status = "raise"]
    ELSE [r EXCEPT !.bus = Master(r.bus, spatial),
                   !.stems = IF return_stems THEN @ ELSE <<>>]

\* the state of render_ensemble before the player loop
EmptyMix(num_samples, spatial, g, pg) ==
    [status |-> "ok", num_samples |-> num_samples,
     bus |-> IF spatial THEN <<Zeros(num_samples), Zeros(num_samples)>>
             ELSE <<Zeros(num_samples)>>,
     stems |-> <<>>, contributors |-> <<>>, synth |-> <<>>,
     rng |-> g, pyrng |-> pg]

\* EnsembleMixer.render_ensemble.  np.zeros raises ValueError for a negative
\* num_samples.
render_ensemble(ps, pat, duration, spatial, return_stems, heap, mdb, db, sr, g, pg) ==
    IF SamplesOf(duration, sr) < 0
    THEN [status |-> "raise", num_samples |-> SamplesOf(duration, sr), bus |-> <<>>,
          stems |-> <<>>, contributors |-> <<>>, synth |-> <<>>, rng |-> g, pyrng |-> pg]
    ELSE MasterStage(RenderPlayers(ps, pat, PatternKeys(pat), 1,
                                   EmptyMix(SamplesOf(duration, sr), spatial, g, pg),
                                   heap, mdb, db, sr, spatial, g, pg),
                     spatial, return_stems)

-----------------------------------------------------------------------------
(* Orchestration driver *)

\* OrchestrationPattern(): three empty dictionaries
OrchestrationPattern ==
    [chenda_events |-> [id \in {} |-> <<>>],
     cymbal_events |-> [id \in {} |-> <<>>],
     wind_events |-> [id \in {} |-> <<>>]]

\* the body of the for loop of the strategy orchestrate_sequence dispatched to
OrchestrateStep(strat, ps, evs, i, cx, pat, g) ==
    CASE strat = "dynamic"    -> orchestrate_dynamic(ps, evs, i, pat, g)
      [] strat = "antiphonal" -> orchestrate_antiphonal(ps, evs, i, pat, g)
      [] strat = "unison"     -> orchestrate_unison(ps, evs, i, pat, g)
      [] strat = "layered"    -> orchestrate_layered(ps, evs, i, pat, g)
      [] OTHER                -> orchestrate_traditional(ps, evs, i, cx, pat, g)

\* the for loop of a strategy from index i on
RECURSIVE OrchestrateFrom(_, _, _, _, _, _, _)
RECURSIVE OrchestrateOn(_, _, _, _, _, _)

OrchestrateOn(r, strat, ps, evs, i, cx) ==
    OrchestrateFrom(strat, ps, evs, i + 1, cx, r.pattern, r.rng)

OrchestrateFrom(strat, ps, evs, i, cx, pat, g) ==
    IF i >= Len(evs) THEN [pattern |-> pat, rng |-> g]
    ELSE OrchestrateOn(OrchestrateStep(strat, ps, evs, i, cx, pat, g), strat, ps, evs, i, cx)

\* OrchestrationEngine.orchestrate_sequence, start to return
orchestrate_sequence(ps, evs, strat, g) ==
    OrchestrateFrom(strat, ps, evs, 0, analyze_pattern_complexity(evs), NewPattern(ps), g)

\* variant: a stroke missing from the library keeps its own name as category
STROKE_LIBRARY_or_name(stroke) ==
    CASE stroke = "Ta" -> "THAAM"
      [] stroke = "Ka" -> "CHAPU"
      [] stroke \in {"Dha", "Dheem"} -> "DHEEM"
      [] stroke = "." -> "REST"
      [] OTHER -> stroke

\* STROKE_LIBRARY.get(stroke, "REST") on the strokes the model composes with
STROKE_LIBRARY(stroke) ==
    CASE stroke = "Ta" -> "THAAM"
      [] stroke = "Ka" -> "CHAPU"
      [] stroke \in {"Dha", "Dheem"} -> "DHEEM"
      [] OTHER -> "REST"

\* one iteration of the loop of create_stroke_events_from_pattern at 120 bpm:
\* the event appended for `stroke` with entry `intensity` of the intensity curve
NextStrokeEvent(evs, stroke, intensity) ==
    StrokeEvent(Len(evs) * 500000, stroke, STROKE_LIBRARY(stroke), intensity, 400000)

\* the (stroke, intensity-curve entry) pairs an input list is composed of
InputStrokes ==
    {<<"Ta", 700>>, <<".", 0>>, <<"Dheem", 950>>, <<"Ka", 1000>>, <<"Dha", 500>>,
     <<"Thom", 600>>}

\* a closing phrase
Coda == <<<<"Dha", 900>>, <<"Ta", 850>>, <<".", 0>>, <<"Dheem", 950>>>>

\* create_stroke_events_from_pattern continued over the strokes k.. of a phrase
RECURSIVE ExtendWith(_, _, _)
ExtendWith(evs, phrase, k) ==
    IF k > Len(phrase) THEN evs
    ELSE ExtendWith(Append(evs, NextStrokeEvent(evs, phrase[k][1], phrase[k][2])),
                    phrase, k + 1)

\* an OrchestrationPattern a caller builds by hand: every event of the list,
\* rests included, in the list of the lead chenda player
SuppliedPattern(ps, evs) ==
    [NewPattern(ps) EXCEPT
        !.chenda_events["P1"] =
            [k \in 1 .. Len(evs) |->
                [evs[k] EXCEPT !.assigned_player = "P1", !.velocity = 800,
                               !.contact_point = 500]]]

\* a hand-built pattern that also hands every event of the list to the wind
\* player, in wind_events
WindPattern(ps, evs) ==
    [SuppliedPattern(ps, evs) EXCEPT
        !.wind_events =
            [id \in {"P6"} |->
                [k \in 1 .. Len(evs) |->
                    [evs[k] EXCEPT !.assigned_player = "P6", !.velocity = 500,
                                   !.contact_point = 500]]]]

\* DNAParser.get_all_sounds() after the three DNA files are parsed: the
\* parse functions store id, type, instrument and synthesis parameters
DnaSounds ==
    [id \in {"CH_TA_OPEN", "ILA_OPEN_MED"} |->
        [id |-> id,
         type |-> IF id = "CH_TA_OPEN" THEN "THAAM_OPEN" ELSE "OPEN",
         instrument |-> IF id = "CH_TA_OPEN" THEN "chenda" ELSE "illathaalam"]]

\* the None that get_sound_by_id returns for an id it does not hold, as the
\* record without fields
NoSoundParams == [k \in {} |-> ""]

\* DNAParser.get_sound_by_id
get_sound_by_id(sound_id) ==
    IF sound_id \in DOMAIN DnaSounds THEN DnaSounds[sound_id] ELSE NoSoundParams

\* sound_params.get('category', 'THAAM') under `if sound_params`, default THAAM
CategoryOf(sound_params) ==
    IF DOMAIN sound_params = {} THEN "THAAM"
    ELSE IF "category" \in DOMAIN sound_params THEN sound_params["category"]
    ELSE "THAAM"

\* the StrokeEvent generate_melam builds for one event of the composer's
\* chenda track (no duration key: 0.3 s)
MelamStrokeEvent(evs, sound_id, velocity) ==
    StrokeEvent(Len(evs) * 500000, "Ta", CategoryOf(get_sound_by_id(sound_id)), velocity, 300000)

NoRender == [status |-> "none"]

NoSound == [status |-> "none"]

NoCall == [op |-> "none"]

-----------------------------------------------------------------------------
(* AudioRecorder (audio/recorder.py).  A stream is the InputStream object   *)
(* self.stream refers to, with the callback it was built with and how far   *)
(* it got; a path is the pair (directory, file name).  `fail` names the     *)
(* library call that raises whenever this method call reaches it.           *)

\* self.stream = None
NoStream == [callback |-> None, state |-> None]

\* self.output_path = None, self.audio_file = None
NoPath == <<>>

FailurePoints ==
    {"none", "makedirs", "SoundFile", "InputStream", "start", "stop", "close", "file_close"}

\* AudioRecorder.__init__
AudioRecorder ==
    [is_recording |-> FALSE, is_monitoring |-> FALSE, stream |-> NoStream,
     audio_file |-> NoPath, output_path |-> NoPath]

\* how a method call ends: the object, the path returned (NoPath for None),
\* whether an exception left the method, and whether a stream / the file
\* got closed
Outcome(r, result, raised, stream_closed, file_closed) ==
    [recorder |-> r, result |-> result, raised |-> raised,
     stream_closed |-> stream_closed, file_closed |-> file_closed]

\* AudioRecorder.start_monitoring
start_monitoring(r, fail) ==
    IF r.is_recording \/ r.is_monitoring THEN Outcome(r, NoPath, FALSE, FALSE, FALSE)
    ELSE IF fail = "InputStream" THEN Outcome(r, NoPath, FALSE, FALSE, FALSE)
    ELSE IF fail = "start"
    THEN Outcome([r EXCEPT !.stream = [callback |-> "_audio_callback", state |-> "created"]],
                 NoPath, FALSE, FALSE, FALSE)
    ELSE Outcome([r EXCEPT !.stream = [callback |-> "_audio_callback", state |-> "active"],
                           !.is_monitoring = TRUE],
                 NoPath, FALSE, FALSE, FALSE)

\* AudioRecorder.stop_monitoring; stream.stop() and stream.close() are not
\* inside a try
stop_monitoring(r, fail) ==
    IF ~r.is_monitoring \/ r.is_recording THEN Outcome(r, NoPath, FALSE, FALSE, FALSE)
    ELSE IF r.stream # NoStream /\ fail = "stop" THEN Outcome(r, NoPath, TRUE, FALSE, FALSE)
    ELSE IF r.stream # NoStream /\ fail = "close"
    THEN Outcome([r EXCEPT !.stream.state = "stopped"], NoPath, TRUE, FALSE, FALSE)
    ELSE Outcome([r EXCEPT !.stream = NoStream, !.is_monitoring = FALSE],
                 NoPath, FALSE, r.stream # NoStream, FALSE)

\* AudioRecorder.cleanup: what raises while closing is swallowed
cleanup(r, fail) ==
    Outcome([r EXCEPT !.stream = NoStream, !.audio_file = NoPath,
                      !.is_recording = FALSE, !.is_monitoring = FALSE],
            NoPath, FALSE,
            r.stream # NoStream /\ fail \notin {"stop", "close"},
            r.audio_file # NoPath /\ fail # "file_close")

\* os.path.join(output_dir, filename), the name made from the clock when
\* none is given
OutputPath(output_dir, filename) ==
    <<output_dir, IF filename = None THEN "rec_now.wav" ELSE filename>>

\* the try block of start_recording
OpenRecording(r, output_dir, filename, fail, stopped) ==
    LET named == [r EXCEPT !.output_path = OutputPath(output_dir, filename)]
        filed == [named EXCEPT !.audio_file = named.output_path]
    IN  IF fail = "makedirs" THEN cleanup(r, fail)
        ELSE IF fail = "SoundFile" THEN cleanup(named, fail)
        ELSE IF fail = "InputStream" THEN cleanup(filed, fail)
        ELSE IF fail = "start"
        THEN cleanup([filed EXCEPT !.stream = [callback |-> "_record_callback",
                                               state |-> "created"]], fail)
        ELSE Outcome([filed EXCEPT !.stream = [callback |-> "_record_callback",
                                               state |-> "active"],
                                   !.is_recording = TRUE],
                     NoPath, FALSE, stopped, FALSE)

\* start_recording once monitoring, if it was on, has been dealt with
AfterMonitoring(m, output_dir, filename, fail) ==
    IF m.raised THEN m
    ELSE OpenRecording(m.recorder, output_dir, filename, fail, m.stream_closed)

\* variant: recording starts without monitoring being stopped
start_recording_while_monitoring(r, output_dir, filename, fail) ==
    IF r.is_recording THEN Outcome(r, NoPath, FALSE, FALSE, FALSE)
    ELSE AfterMonitoring(Outcome(r, NoPath, FALSE, FALSE, FALSE), output_dir, filename, fail)

\* AudioRecorder.start_recording
start_recording(r, output_dir, filename, fail) ==
    IF r.is_recording THEN Outcome(r, NoPath, FALSE, FALSE, FALSE)
    ELSE AfterMonitoring(IF r.is_monitoring THEN stop_monitoring(r, fail)
                         ELSE Outcome(r, NoPath, FALSE, FALSE, FALSE),
                         output_dir, filename, fail)

\* AudioRecorder.stop_recording
stop_recording(r, fail) ==
    IF ~r.is_recording THEN Outcome(r, NoPath, FALSE, FALSE, FALSE)
    ELSE IF r.stream # NoStream /\ fail \in {"stop", "close"} THEN cleanup(r, fail)
    ELSE IF r.audio_file # NoPath /\ fail = "file_close"
    THEN [cleanup([r EXCEPT !.stream = NoStream], fail) EXCEPT
             !.stream_closed = r.stream # NoStream]
    ELSE Outcome([r EXCEPT !.stream = NoStream, !.audio_file = NoPath,
                           !.is_recording = FALSE],
                 r.output_path, FALSE, r.stream # NoStream, r.audio_file # NoPath)

-----------------------------------------------------------------------------
(* UndoStack (command_system.py).  A command is an object with execute()    *)
(* and undo(), either of which may raise.                                   *)

\* UndoStack.__init__
UndoStack(max_size) == [undo_stack |-> <<>>, redo_stack |-> <<>>, max_size |-> max_size]

\* list.pop(): the list without its last element
Front(list) == SubSeq(list, 1, Len(list) - 1)

\* undo_stack.append(command), then the size limit
Limited(pushed, max_size) == IF Len(pushed) > max_size THEN Tail(pushed) ELSE pushed

\* how an UndoStack call ends: the object, the value returned ("True",
\* "False" or None), whether an exception left the method
Ended(h, result, raised) == [history |-> h, result |-> result, raised |-> raised]

\* variant: the undo stack is never trimmed
execute_unlimited(h, command, raises) ==
    IF raises THEN Ended(h, None, TRUE)
    ELSE Ended([h EXCEPT !.undo_stack = Append(h.undo_stack, command),
                            !.redo_stack = <<>>],
                  None, FALSE)

\* UndoStack.execute
execute(h, command, raises) ==
    IF raises THEN Ended(h, None, TRUE)
    ELSE Ended([h EXCEPT !.undo_stack = Limited(Append(h.undo_stack, command), h.max_size),
                            !.redo_stack = <<>>],
                  None, FALSE)

can_undo(h) == Len(h.undo_stack) > 0

can_redo(h) == Len(h.redo_stack) > 0

\* UndoStack.undo
undo(h, raises) ==
    IF ~can_undo(h) THEN Ended(h, "False", FALSE)
    ELSE IF raises THEN Ended([h EXCEPT !.undo_stack = Front(h.undo_stack)], None, TRUE)
    ELSE Ended([h EXCEPT !.undo_stack = Front(h.undo_stack),
                            !.redo_stack = Append(h.redo_stack,
                                                  h.undo_stack[Len(h.undo_stack)])],
                  "True", FALSE)

\* UndoStack.redo
redo(h, raises) ==
    IF ~can_redo(h) THEN Ended(h, "False", FALSE)
    ELSE IF raises THEN Ended([h EXCEPT !.redo_stack = Front(h.redo_stack)], None, TRUE)
    ELSE Ended([h EXCEPT !.redo_stack = Front(h.redo_stack),
                            !.undo_stack = Append(h.undo_stack,
                                                  h.redo_stack[Len(h.redo_stack)])],
                  "True", FALSE)

\* UndoStack.clear
clear(h) == Ended([h EXCEPT !.undo_stack = <<>>, !.redo_stack = <<>>], None, FALSE)

\* the control panel's recorder and an undo stack, both as constructed
DeskIdle ==
    /\ recorder = AudioRecorder
    /\ history = UndoStack(100)

-----------------------------------------------------------------------------
(* Specification Spec: one ensemble, one orchestrate_sequence call taken    *)
(* iteration by iteration, one render_ensemble call                         *)

\* the ensemble ChendAI6Player builds at start-up from a fresh interpreter
StandardMelam == build_standard_melam(MEMBRANE_DATABASE, <<>>, <<>>, 0, 0)

\* the ensemble m is built, its generator states are the current ones
EnsembleIs(m) ==
    /\ rng = m.rng
    /\ pyrng = m.pyrng
    /\ membraneDb = m.db
    /\ instruments = m.heap
    /\ snapshots = m.snaps
    /\ players = m.players

Init ==
    /\ EnsembleIs(StandardMelam)
    /\ events = <<>>
    /\ strategy = "traditional"
    /\ opc = "idle"
    /\ oi = 0
    /\ complexity = [num |-> 0, den |-> 1]
    /\ pattern = OrchestrationPattern
    /\ sample_rate = 4
    /\ bank = StandardBank
    /\ nUpdates = 0
    /\ render = NoRender
    /\ sound = NoSound
    /\ call = NoCall
    /\ DeskIdle

\* the caller's create_stroke_events_from_pattern appends the next event
Compose(stroke, intensity) ==
    /\ opc = "idle"
    /\ Len(events) < MaxLen
    /\ events' = Append(events, NextStrokeEvent(events, stroke, intensity))
    /\ UNCHANGED <<rng, pyrng, factoryVars, strategy, opc, oi, complexity, pattern,
                   sample_rate, bank, mixVars, sound, call, deskVars>>

\* generate_melam converts the next event of the composer's chenda track
ConvertMelamEvent(sound_id, velocity) ==
    /\ opc = "idle"
    /\ Len(events) < MaxLen
    /\ events' = Append(events, MelamStrokeEvent(events, sound_id, velocity))
    /\ UNCHANGED <<rng, pyrng, factoryVars, strategy, opc, oi, complexity, pattern,
                   sample_rate, bank, mixVars, sound, call, deskVars>>

\* ... and the closing phrase
ComposeCoda ==
    /\ opc = "idle"
    /\ Len(events) <= MaxLen
    /\ events' = ExtendWith(events, Coda, 1)
    /\ UNCHANGED <<rng, pyrng, factoryVars, strategy, opc, oi, complexity, pattern,
                   sample_rate, bank, mixVars, sound, call, deskVars>>

\* orchestrate_sequence(events, strat) up to the first loop test
OrchStart(strat) ==
    /\ opc = "idle"
    /\ strategy' = strat
    /\ pattern' = NewPattern(players)
    /\ complexity' = IF strat = "traditional" THEN analyze_pattern_complexity(events)
                     ELSE complexity
    /\ oi' = 0
    /\ opc' = "loop"
    /\ UNCHANGED <<rng, pyrng, factoryVars, events, sample_rate, bank, mixVars, sound, call, deskVars>>

\* the strategy's loop body returned r; the i-th input event is what the
\* body left of it
Assigned(r, i) ==
    /\ pattern' = r.pattern
    /\ rng' = r.rng
    /\ events' = [events EXCEPT ![i + 1] = r.input]

\* one iteration of the strategy's for loop
OrchStep ==
    /\ opc = "loop"
    /\ oi < Len(events)
    /\ Assigned(OrchestrateStep(strategy, players, events, oi, complexity, pattern, rng), oi)
    /\ oi' = oi + 1
    /\ UNCHANGED <<pyrng, factoryVars, strategy, opc, complexity, sample_rate, bank,
                   mixVars, sound, call, deskVars>>

\* the loop is exhausted: return pattern
OrchReturn ==
    /\ opc = "loop"
    /\ oi >= Len(events)
    /\ opc' = "done"
    /\ UNCHANGED <<rng, pyrng, factoryVars, events, strategy, oi, complexity, pattern,
                   sample_rate, bank, mixVars, sound, call, deskVars>>

\* a caller hands the mixer a pattern built without the engine
Supply(with_wind) ==
    /\ opc = "idle"
    /\ pattern' = IF with_wind THEN WindPattern(players, events)
                  ELSE SuppliedPattern(players, events)
    /\ opc' = "supplied"
    /\ UNCHANGED <<rng, pyrng, factoryVars, events, strategy, oi, complexity,
                   sample_rate, bank, mixVars, sound, call, deskVars>>

\* render_ensemble returned (or raised) r
Rendered(r, duration, spatial, return_stems) ==
    /\ render' = [status |-> r.status, master |-> r.bus, stems |-> r.stems,
                  contributors |-> r.contributors, synth |-> r.synth,
                  duration |-> duration, spatial |-> spatial,
                  return_stems |-> return_stems]
    /\ rng' = r.rng
    /\ pyrng' = r.pyrng

\* EnsembleMixer.render_ensemble(ensemble, pattern, duration, engine, spatial, stems)
Render(duration, spatial, return_stems) ==
    /\ opc \in {"done", "supplied"}
    /\ render.status = "none"
    /\ Rendered(render_ensemble(players, pattern, duration, spatial, return_stems,
                                instruments, membraneDb, bank, sample_rate, rng, pyrng),
                duration, spatial, return_stems)
    /\ UNCHANGED <<factoryVars, orchVars, sample_rate, bank, nUpdates, sound, call, deskVars>>

Next ==
    \/ \E x \in InputStrokes : Compose(x[1], x[2])
    \/ \E sound_id \in {"CH_TA_OPEN", "FINAL_CUT_UNISON_HIT"} : ConvertMelamEvent(sound_id, 820)
    \/ ComposeCoda
    \/ \E strat \in Strategies : OrchStart(strat)
    \/ OrchStep
    \/ OrchReturn
    \/ \E with_wind \in BOOLEAN : Supply(with_wind)
    \/ Render(2000000, TRUE, TRUE)

Spec == Init /\ [][Next]_vars

-----------------------------------------------------------------------------
(* Specification SpecMix: the studio server applies player settings to the  *)
(* ensemble, then a pattern is rendered                                     *)

\* what an orchestrate_sequence call that returned r leaves behind
OrchestratedAs(r, evs, strat) ==
    [events |-> evs, strategy |-> strat, pattern |-> r.pattern, rng |-> r.rng,
     opc |-> "done",
     complexity |-> IF strat = "traditional" THEN analyze_pattern_complexity(evs)
                    ELSE [num |-> 0, den |-> 1]]

\* an orchestrate_sequence call on the ensemble, start to return
Orchestrated(ps, g, evs, strat) ==
    OrchestratedAs(orchestrate_sequence(ps, evs, strat, g), evs, strat)

\* a pattern built without the engine from events as the caller made them
Supplied(g, evs, pat) ==
    [events |-> evs, strategy |-> "traditional", pattern |-> pat,
     rng |-> g, opc |-> "supplied", complexity |-> [num |-> 0, den |-> 1]]

\* a pattern whose events were never assigned: velocity and contact point None
RawPattern(ps, evs) == [NewPattern(ps) EXCEPT !.chenda_events["P1"] = evs]

MixPhrase == ExtendWith(<<>>, <<<<"Dheem", 950>>, <<"Ta", 700>>, <<".", 0>>, <<"Dha", 500>>>>, 1)

\* a known category with duration 0, then a regular stroke
ZeroPhrase == <<StrokeEvent(0, "Ta", "THAAM", 700, 0), StrokeEvent(500000, "Dheem", "DHEEM", 950, 400000)>>

\* a rest, an unknown category with duration 0, then a regular stroke
SkipPhrase == <<StrokeEvent(0, ".", "REST", 0, 400000), StrokeEvent(500000, "Tom", "TOM", 700, 0), StrokeEvent(1000000, "Ta", "THAAM", 700, 400000)>>

\* the patterns the mixer is given for the ensemble ps
MixPatterns(ps, g) ==
    {Orchestrated(ps, g, MixPhrase, "traditional"),
     Orchestrated(ps, g, ZeroPhrase, "unison"),
     Supplied(g, SkipPhrase, SuppliedPattern(ps, SkipPhrase)),
     Supplied(g, MixPhrase, RawPattern(ps, MixPhrase))}

\* the ensemble m with one of its patterns, before any setting is changed
MixStart(m) ==
    /\ pyrng = m.pyrng
    /\ membraneDb = m.db
    /\ instruments = m.heap
    /\ snapshots = m.snaps
    /\ players = m.players
    /\ \E x \in MixPatterns(m.players, m.rng) :
        /\ rng = x.rng
        /\ events = x.events
        /\ strategy = x.strategy
        /\ opc = x.opc
        /\ oi = Len(x.events)
        /\ complexity = x.complexity
        /\ pattern = x.pattern
    /\ sample_rate = 4
    /\ bank = StandardBank
    /\ nUpdates = 0
    /\ render = NoRender
    /\ sound = NoSound
    /\ call = NoCall
    /\ DeskIdle

InitMix == MixStart(StandardMelam)

\* the player p after the fields present in the update u are applied
Updated(p, u) ==
    [f \in DOMAIN p |->
        CASE f = "gain" /\ "volume" \in DOMAIN u -> u.volume
          [] f \in {"pan", "mute", "solo"} /\ f \in DOMAIN u -> u[f]
          [] OTHER -> p[f]]

\* one p_update of the /api/generate handler: fields that are None (absent
\* from u) are left as they are
UpdatePlayer(id, u) ==
    /\ render.status = "none"
    /\ nUpdates < MaxUpdates
    /\ id \in DOMAIN players
    /\ players' = [players EXCEPT ![id] = Updated(@, u)]
    /\ nUpdates' = nUpdates + 1
    /\ UNCHANGED <<rng, pyrng, membraneDb, instruments, snapshots, orchVars, sample_rate,
                   bank, render, sound, call, deskVars>>

\* the players whose settings the studio changes
StudioPlayers == {"P1", "P3", "P6"}

NextMix ==
    \/ \E id \in StudioPlayers : UpdatePlayer(id, [mute |-> TRUE])
    \/ \E id \in StudioPlayers : UpdatePlayer(id, [solo |-> TRUE])
    \/ UpdatePlayer("P1", [volume |-> 500, pan |-> 1000])
    \/ \E duration \in {2000000, 100000}, spatial \in BOOLEAN : Render(duration, spatial, TRUE)

SpecMix == InitMix /\ [][NextMix]_vars

-----------------------------------------------------------------------------
(* Specification SpecSynth: direct calls of SpectralEngine.get_sound        *)

InitSynth ==
    /\ rng \in RngStates
    /\ pyrng \in PyRngStates
    /\ membraneDb = MEMBRANE_DATABASE
    /\ instruments = <<>>
    /\ snapshots = <<>>
    /\ players = [id \in {} |-> None]
    /\ events = <<>>
    /\ strategy = "traditional"
    /\ opc = "idle"
    /\ oi = 0
    /\ complexity = [num |-> 0, den |-> 1]
    /\ pattern = OrchestrationPattern
    /\ sample_rate = 1000
    /\ bank \in {StandardBank, EmptyBank}
    /\ nUpdates = 0
    /\ render = NoRender
    /\ sound = NoSound
    /\ call = NoCall
    /\ DeskIdle

\* get_sound returned (or raised) r
Returned(r, category, velocity, duration) ==
    /\ sound' = [status |-> r.status, buf |-> r.buf, layers |-> r.layers,
                 category |-> category, velocity |-> velocity, duration |-> duration]
    /\ rng' = r.rng
    /\ pyrng' = r.pyrng

\* SpectralEngine.get_sound(category, velocity, duration)
GetSound(category, velocity, duration) ==
    /\ Returned(get_sound(bank, category, velocity, duration, sample_rate, rng, pyrng),
                category, velocity, duration)
    /\ UNCHANGED <<factoryVars, orchVars, sample_rate, bank, mixVars, call, deskVars>>

NextSynth ==
    \E category \in {"THAAM", "DHEEM", "NAM", "CHAPU", "TOM"}, velocity \in {1000, 500},
       duration \in {20000, 3000, 500, 0, 0 - 1000} :
        GetSound(category, velocity, duration)

SpecSynth == InitSynth /\ [][NextSynth]_vars

-----------------------------------------------------------------------------
(* Specification SpecCalls: direct calls of single methods: the Player      *)
(* constructor, Player.get_velocity_for_intensity on the players of a       *)
(* standard melam, the post-processing stages of the mixer and the FX rack, *)
(* WoodProperties.resonance_brightness                                      *)

InitCalls ==
    /\ EnsembleIs(StandardMelam)
    /\ events = <<>>
    /\ strategy = "traditional"
    /\ opc = "idle"
    /\ oi = 0
    /\ complexity = [num |-> 0, den |-> 1]
    /\ pattern = OrchestrationPattern
    /\ sample_rate = 4
    /\ bank = StandardBank
    /\ nUpdates = 0
    /\ render = NoRender
    /\ sound = NoSound
    /\ call = NoCall
    /\ DeskIdle

\* the intensities handed to get_velocity_for_intensity: the unit interval
\* and values on both sides of it
CallIntensities == {0 - 500, 0, 300, 600, 1000, 1500}

\* player.get_velocity_for_intensity(intensity): one draw of np.random.normal
VelocityCall(id, intensity) ==
    /\ id \in DOMAIN players
    /\ call' = [op |-> "get_velocity_for_intensity", player |-> id,
                intensity |-> intensity, rng |-> rng,
                result |-> get_velocity_for_intensity(players[id], intensity, rng)]
    /\ rng' = RngNext(rng)
    /\ UNCHANGED <<pyrng, factoryVars, orchVars, sample_rate, bank, mixVars, sound, deskVars>>

\* Player(..., spatial_position=spatial_position) when pan is Unset, and
\* Player(..., spatial_position=spatial_position, pan=pan) otherwise
PlayerCall(spatial_position, pan) ==
    /\ call' = [op |-> "Player", spatial_position |-> spatial_position, pan |-> pan,
                result |-> Player("PX", "chenda_accent", "chenda", [kind |-> "none"],
                                  Timing(900, 0, 0), 900, <<400, 1000>>,
                                  spatial_position, pan)]
    /\ UNCHANGED <<rng, pyrng, factoryVars, orchVars, sample_rate, bank, mixVars, sound, deskVars>>

\* the buffers handed to a post-processing stage: up to MaxLen samples, NaN
\* among them
StageSamples == {NaN, 300, 0 - 1500}

StageBuffers == UNION {[1 .. n -> StageSamples] : n \in 1 .. MaxLen}

\* mixer._apply_material_effects(audio, strike_profile, wood, membrane) with
\* the strike profile of one stick, membrane, velocity and contact point
MaterialEffectsCall(audio, wood, contact_point) ==
    /\ call' = [op |-> "apply_material_effects", audio |-> audio, wood |-> wood,
                contact_point |-> contact_point,
                result |-> apply_material_effects(audio,
                              create_complete_strike_profile(
                                  STICK_DATABASE["bamboo_medium"],
                                  MEMBRANE_DATABASE["cow_high"], 800, contact_point,
                                  sample_rate, rng),
                              WOOD_DATABASE[wood], sample_rate)]
    /\ UNCHANGED <<rng, pyrng, factoryVars, orchVars, sample_rate, bank, mixVars, sound, deskVars>>

\* fx.process_chenda(audio) / process_metal / process_wind: _run_board
RunBoardCall(audio) ==
    /\ call' = [op |-> "run_board", audio |-> audio, result |-> run_board(audio)]
    /\ UNCHANGED <<rng, pyrng, factoryVars, orchVars, sample_rate, bank, mixVars, sound, deskVars>>

\* the densities compared with the preset density of a wood: the floats one
\* and two places below and above it, and a density 100 kg/m3 above
DensitiesNear(density) ==
    {density + k * FloatUlp(density, 1) : k \in {0 - 2, 0 - 1, 1, 2}}
        \cup {density + 100 * FloatUnit}

\* resonance_brightness of WOOD_DATABASE[wood] and of the same wood with the
\* density other, every other field the same
BrightnessCall(wood, other) ==
    /\ call' = [op |-> "resonance_brightness", wood |-> wood,
                density |-> <<WOOD_DATABASE[wood].density * FloatUnit, other>>,
                result |-> <<resonance_brightness_float(WOOD_DATABASE[wood].density * FloatUnit),
                             resonance_brightness_float(other)>>]
    /\ UNCHANGED <<rng, pyrng, factoryVars, orchVars, sample_rate, bank, mixVars, sound, deskVars>>

NextCalls ==
    \/ \E wood \in WoodKeys :
          \E other \in DensitiesNear(WOOD_DATABASE[wood].density * FloatUnit) :
              BrightnessCall(wood, other)
    \/ \E audio \in StageBuffers, wood \in {"teak", "rosewood"},
          contact_point \in {300, 800} : MaterialEffectsCall(<<>> \o audio, wood, contact_point)
    \/ \E audio \in StageBuffers : RunBoardCall(<<>> \o audio)
    \/ \E id \in PlayerIds, intensity \in CallIntensities : VelocityCall(id, intensity)
    \/ \E spatial_position \in {<<0 - 300, 0, 1000>>, <<800, 0, 1200>>, <<0, 0, 800>>},
          pan \in {Unset, 0, 500, 0 - 1000} : PlayerCall(spatial_position, pan)

SpecCalls == InitCalls /\ [][NextCalls]_vars

-----------------------------------------------------------------------------
(* Specification SpecFactory: the player factory builds players and         *)
(* ensembles one after the other in one interpreter                         *)

InitFactory ==
    /\ rng \in RngStates
    /\ pyrng = 0
    /\ membraneDb = MEMBRANE_DATABASE
    /\ instruments = <<>>
    /\ snapshots = <<>>
    /\ players = [id \in {} |-> None]
    /\ events = <<>>
    /\ strategy = "traditional"
    /\ opc = "idle"
    /\ oi = 0
    /\ complexity = [num |-> 0, den |-> 1]
    /\ pattern = OrchestrationPattern
    /\ sample_rate = 4
    /\ bank = StandardBank
    /\ nUpdates = 0
    /\ render = NoRender
    /\ sound = NoSound
    /\ call = NoCall
    /\ DeskIdle

\* the factory state the interpreter is in
FactoryState ==
    [db |-> membraneDb, heap |-> instruments, snaps |-> snapshots, rng |-> rng,
     pyrng |-> pyrng]

\* a factory call left the factory state st
FactoryIs(st) ==
    /\ membraneDb' = st.db
    /\ instruments' = st.heap
    /\ snapshots' = st.snaps
    /\ rng' = st.rng
    /\ pyrng' = st.pyrng

\* PlayerFactory.create_chenda_lead / _rhythm / _accent(player_id); the
\* caller keeps the player
CreateChendaPlayer(kind, player_id) ==
    /\ Len(instruments) < MaxInstruments
    /\ FactoryIs(AddChenda(FactoryState, kind, player_id))
    /\ players' = [id \in DOMAIN players \cup {player_id} |->
                     IF id = player_id
                     THEN ChendaPlayer(kind, player_id, Len(instruments) + 1)
                     ELSE players[id]]
    /\ UNCHANGED <<orchVars, sample_rate, bank, mixVars, sound, call, deskVars>>

\* the ensemble m replaces the caller's players
EnsembleBuilt(m) ==
    /\ FactoryIs(m)
    /\ players' = m.players

\* Ensemble().build_standard_melam()
BuildStandardMelam ==
    /\ Len(instruments) + 3 <= MaxInstruments
    /\ EnsembleBuilt(build_standard_melam(membraneDb, instruments, snapshots, rng, pyrng))
    /\ UNCHANGED <<orchVars, sample_rate, bank, mixVars, sound, call, deskVars>>

NextFactory ==
    \/ CreateChendaPlayer("lead", "P1")
    \/ CreateChendaPlayer("rhythm", "P2")
    \/ CreateChendaPlayer("accent", "P3")
    \/ BuildStandardMelam

SpecFactory == InitFactory /\ [][NextFactory]_vars

-----------------------------------------------------------------------------
(* Properties of the orchestration (specification Spec) *)

\* the number of input events the running or finished strategy loop has handled
Handled == IF opc = "done" THEN Len(events) ELSE oi

Orchestrating == opc \in {"loop", "done"}

NoRestIn(lists) ==
    \A id \in DOMAIN lists :
        \A k \in 1 .. Len(lists[id]) : lists[id][k].sound_category # "REST"

\* the entry of a player list that is the assigned copy of input event e:
\* same stroke, category, intensity and duration, humanized time
CopyOf(a, e) ==
    /\ a.stroke_type = e.stroke_type
    /\ a.sound_category = e.sound_category
    /\ a.intensity = e.intensity
    /\ a.duration = e.duration
    /\ Abs(a.time - e.time) < 250000

HasCopy(list, e) == \E k \in 1 .. Len(list) : CopyOf(list[k], e)

HasRest(evs) == \E k \in 1 .. Len(evs) : evs[k].sound_category = "REST"

\* C1: under each of the five strategies no list of the pattern that
\* orchestrate_sequence builds holds an event of category REST, and no event
\* the mixer hands to a synthesize function is of category REST.
C1_RestNeverAssignedNorRendered ==
    /\ Orchestrating =>
          /\ NoRestIn(pattern.chenda_events)
          /\ NoRestIn(pattern.cymbal_events)
          /\ NoRestIn(pattern.wind_events)
    /\ render.status # "none" =>
          \A k \in 1 .. Len(render.synth) : render.synth[k].sound_category # "REST"

\* an input with rests and strokes was orchestrated and the pattern rendered
C1_Witness ==
    /\ opc = "done"
    /\ HasRest(events)
    /\ Len(NonRest(events)) >= 2
    /\ render.status = "ok"
    /\ Len(render.synth) >= 2

\* C2: under unison every chenda player's list is, entry by entry, the
\* assigned copies of the non-REST input events handled so far, in input
\* order; at return all lists have the length of the non-REST input.
C2_UnisonCopiesEveryStroke ==
    (Orchestrating /\ strategy = "unison") =>
        LET strokes == NonRest(SubSeq(events, 1, Handled))
        IN  \A id \in DOMAIN pattern.chenda_events :
                /\ Len(pattern.chenda_events[id]) = Len(strokes)
                /\ \A k \in 1 .. Len(strokes) :
                      /\ CopyOf(pattern.chenda_events[id][k], strokes[k])
                      /\ pattern.chenda_events[id][k].assigned_player = id

C2_Witness ==
    /\ opc = "done"
    /\ strategy = "unison"
    /\ HasRest(events)
    /\ Len(NonRest(events)) >= 3
    /\ \A id \in {"P1", "P2", "P3"} : Len(pattern.chenda_events[id]) >= 3

HeavyAccent(e) ==
    /\ e.sound_category # "REST"
    /\ e.intensity > 800
    /\ e.stroke_type \in {"Dheem", "Dha"}

\* C3: under traditional every handled non-REST input event with intensity
\* above 0.8 and stroke Dheem or Dha has its copy in the accent player's
\* list and in no other chenda player's list.
C3_HeavyAccentsToAccentPlayer ==
    (Orchestrating /\ strategy = "traditional") =>
        \A i \in 1 .. Handled :
            HeavyAccent(events[i]) =>
                \A id \in DOMAIN pattern.chenda_events :
                    HasCopy(pattern.chenda_events[id], events[i])
                        <=> id = get_players_by_role(players, "chenda_accent")

\* a heavy accent orchestrated inside a pattern of complexity above 0.7
C3_Witness ==
    /\ opc = "done"
    /\ strategy = "traditional"
    /\ \E i \in 1 .. Len(events) : HeavyAccent(events[i])
    /\ complexity.num > 700 * complexity.den
    /\ Len(pattern.chenda_events["P3"]) >= 1

\* C9: every event of a chenda or cymbal list of an orchestrated pattern
\* names the list's player as assigned_player and carries a velocity and a
\* contact point in [0,1]; a chenda event's contact point is in [0.6,0.9]
\* when its intensity is above 0.7 and in [0.3,0.6] otherwise.
C9_StoredEventsAreResolved ==
    Orchestrating =>
        /\ \A id \in DOMAIN pattern.chenda_events :
              \A k \in 1 .. Len(pattern.chenda_events[id]) :
                  LET e == pattern.chenda_events[id][k]
                  IN  /\ e.assigned_player = id
                      /\ e.velocity # Unset /\ e.velocity >= 0 /\ e.velocity <= 1000
                      /\ e.contact_point # Unset
                      /\ IF e.intensity > 700
                         THEN e.contact_point >= 600 /\ e.contact_point <= 900
                         ELSE e.contact_point >= 300 /\ e.contact_point <= 600
        /\ \A id \in DOMAIN pattern.cymbal_events :
              \A k \in 1 .. Len(pattern.cymbal_events[id]) :
                  LET e == pattern.cymbal_events[id][k]
                  IN  /\ e.assigned_player = id
                      /\ e.velocity # Unset /\ e.velocity >= 0 /\ e.velocity <= 1000
                      /\ e.contact_point # Unset
                      /\ e.contact_point >= 0 /\ e.contact_point <= 1000

\* a returned pattern with loud and soft chenda events and cymbal events
C9_Witness ==
    /\ opc = "done"
    /\ \E id \in DOMAIN pattern.chenda_events :
          \E k \in 1 .. Len(pattern.chenda_events[id]) :
              pattern.chenda_events[id][k].intensity > 700
    /\ \E id \in DOMAIN pattern.chenda_events :
          \E k \in 1 .. Len(pattern.chenda_events[id]) :
              pattern.chenda_events[id][k].intensity <= 700
    /\ \E id \in DOMAIN pattern.cymbal_events : Len(pattern.cymbal_events[id]) > 0

-----------------------------------------------------------------------------
(* Properties of the mixer (specification SpecMix) *)

\* the players that contributed to the master bus of the finished render
Contributors == {render.contributors[k] : k \in 1 .. Len(render.contributors)}

\* the players of the ensemble the pattern holds events for
WithEvents ==
    {id \in DOMAIN players :
        /\ \E k \in 1 .. Len(PatternKeys(pattern)) : PatternKeys(pattern)[k] = id
        /\ Len(EventsOf(pattern, id)) > 0}

SoloOnSomePlayer == \E id \in DOMAIN players : players[id].solo

\* C4: in a render that returned, if some player of the ensemble is soloed
\* exactly the soloed players (that have events) contributed to the master
\* bus, and if none is soloed exactly the non-muted ones did.
C4_SoloMuteSelectContributors ==
    render.status = "ok" =>
        Contributors = {id \in WithEvents :
                           IF SoloOnSomePlayer THEN players[id].solo ELSE ~players[id].mute}

\* C5: for an orchestrated pattern and a duration above 0, render_ensemble
\* returns a master of two channels (spatial) or one (mono), each of
\* int(duration x sample_rate) samples, with peak at most 0.98.
C5_MasterLengthAndPeak ==
    (opc = "done" /\ render.status # "none" /\ render.duration > 0) =>
        /\ render.status = "ok"
        /\ Len(render.master) = IF render.spatial THEN 2 ELSE 1
        /\ \A c \in 1 .. Len(render.master) :
              Len(render.master[c]) = SamplesOf(render.duration, sample_rate)
        /\ BusPeak(render.master) <= 980

\* the non-REST events of the players the player loop does not skip
EventsToRender ==
    {<<id, k>> \in WithEvents \X (1 .. 8) :
        /\ k <= Len(EventsOf(pattern, id))
        /\ Renders(players, pattern, id, solo_active(players, pattern))
        /\ EventsOf(pattern, id)[k].sound_category # "REST"}

\* C8: a render over a track of at least one sample returns a result, and
\* every player the loop does not skip is rendered with every one of its
\* non-REST events handled, whatever a single event does.
C8_BadEventNeverAborts ==
    (render.status # "none" /\ SamplesOf(render.duration, sample_rate) > 0) =>
        /\ render.status = "ok"
        /\ Contributors = {x[1] : x \in EventsToRender}
        /\ Len(render.synth) = Cardinality(EventsToRender)

-----------------------------------------------------------------------------
(* Properties of the spectral engine (specification SpecSynth) *)

HasCandidates == Len(Candidates(bank, sound.category)) > 0

\* C6: get_sound with a duration above 0 does not raise and returns
\* int(duration x sample_rate) samples: zeros when the bank has no variant
\* of the category, otherwise the sum of all 4 layers with peak at most
\* velocity.
C6_GetSoundTotalAndSized ==
    (sound.status # "none" /\ sound.duration > 0) =>
        /\ sound.status = "ok"
        /\ Len(sound.buf) = SamplesOf(sound.duration, sample_rate)
        /\ ~HasCandidates => \A k \in 1 .. Len(sound.buf) : sound.buf[k] = 0
        /\ HasCandidates => (sound.layers = 4 /\ PeakOf(sound.buf) <= sound.velocity)

\* C7: get_sound with a duration of 0 or less returns the empty buffer
\* without raising, for known and unknown categories; and no render is left
\* by an exception at an event with such a duration.
C7_NonPositiveDurationIsEmpty ==
    /\ (sound.status # "none" /\ sound.duration <= 0) =>
          (sound.status = "ok" /\ Len(sound.buf) = 0)
    /\ (render.status = "raise" /\ SamplesOf(render.duration, sample_rate) > 0) =>
          (Len(render.synth) > 0 /\ render.synth[Len(render.synth)].duration > 0)

-----------------------------------------------------------------------------
(* Properties of the factory (specification SpecFactory) *)

\* C10: every ChendaInstrument still has the physical properties it had
\* when its create_chenda call returned.
C10_PhysicalPropertiesNeverChange ==
    \A i \in 1 .. Len(instruments) :
        PhysicalProperties(instruments[i], membraneDb) = snapshots[i]

\* whether tension t is within 5% of the original tension of preset key
WithinFivePercent(t, key) ==
    /\ t * 1000 >= MEMBRANE_DATABASE[key].tension * 950
    /\ t * 1000 <= MEMBRANE_DATABASE[key].tension * 1050

\* C11: after any number of factory calls the tension of every chenda
\* membrane is within 5% of the original tension of its preset (and inside
\* [0,1]), and the membrane presets still hold their original values.
C11_VariationBoundedPresetsIntact ==
    /\ \A i \in 1 .. Len(instruments) :
          /\ WithinFivePercent(membraneDb[instruments[i].membrane_valam].tension,
                               instruments[i].membrane_valam)
          /\ WithinFivePercent(membraneDb[instruments[i].membrane_edamthala].tension,
                               instruments[i].membrane_edamthala)
          /\ membraneDb[instruments[i].membrane_valam].tension \in 0 .. 1000
          /\ membraneDb[instruments[i].membrane_edamthala].tension \in 0 .. 1000
    /\ membraneDb = MEMBRANE_DATABASE

\* the instruments and the pattern of a build followed by an orchestration
\* in a fresh interpreter equal those of the build `built` that left rng g
SameAsFresh(fresh, built, g, n) ==
    /\ \A i \in 1 .. 3 : built.snaps[n + i] = fresh.snaps[i]
    /\ orchestrate_sequence(built.players, MixPhrase, "traditional", g).pattern
          = orchestrate_sequence(fresh.players, MixPhrase, "traditional", fresh.rng).pattern

\* C12: an ensemble build and an orchestration that start from given
\* generator states give the instruments and the pattern that the same
\* build and orchestration give in a fresh interpreter started from those
\* states, also when other builds ran before in the same interpreter.
C12_SameDrawsSameResult ==
    [][Len(instruments') = Len(instruments) + 3 =>
          SameAsFresh(build_standard_melam(MEMBRANE_DATABASE, <<>>, <<>>, rng, pyrng),
                      [snaps |-> snapshots', players |-> players'], rng',
                      Len(instruments))]_vars

-----------------------------------------------------------------------------
(* Properties of the timing (specification Spec) *)

NonNegativeTimes(lists) ==
    \A id \in DOMAIN lists : \A k \in 1 .. Len(lists[id]) : lists[id][k].time >= 0

\* C13: for input event times of 0 or more, every chenda and cymbal event
\* of the pattern has a time of 0 or more.
C13_PatternTimesNonNegative ==
    (Orchestrating /\ \A k \in 1 .. Len(events) : events[k].time >= 0) =>
        /\ NonNegativeTimes(pattern.chenda_events)
        /\ NonNegativeTimes(pattern.cymbal_events)

-----------------------------------------------------------------------------
(* Properties of the event data (specification Spec) *)

Categories == {"THAAM", "CHAPU", "NAM", "DHEEM", "REST"}

CategoriesIn(lists) ==
    \A id \in DOMAIN lists :
        \A k \in 1 .. Len(lists[id]) : lists[id][k].sound_category \in Categories

\* C14: every event of the input list, whether made from a stroke name or
\* converted by generate_melam, and every event stored in the pattern has a
\* sound_category in {THAAM, CHAPU, NAM, DHEEM, REST}; a stroke name missing
\* from the library gives REST.
C14_CategoriesClosed ==
    /\ \A k \in 1 .. Len(events) :
          /\ events[k].sound_category \in Categories
          /\ events[k].stroke_type = "Thom" => events[k].sound_category = "REST"
    /\ CategoriesIn(pattern.chenda_events)
    /\ CategoriesIn(pattern.cymbal_events)
    /\ CategoriesIn(pattern.wind_events)

\* an orchestrated input with an unknown stroke name, a converted event and
\* cymbal hits
C14_Witness ==
    /\ opc = "done"
    /\ \E k \in 1 .. Len(events) : events[k].stroke_type = "Thom"
    /\ \E k \in 1 .. Len(events) : events[k].duration = 300000
    /\ \E id \in DOMAIN pattern.chenda_events : Len(pattern.chenda_events[id]) >= 2
    /\ \E id \in DOMAIN pattern.cymbal_events : Len(pattern.cymbal_events[id]) >= 1

-----------------------------------------------------------------------------
(* Stems (specification SpecMix) *)

\* the players with gain and pan as Player.__post_init__ left them
NeutralMix(ps) ==
    [id \in DOMAIN ps |-> [ps[id] EXCEPT !.gain = 1000, !.pan = ps[id].spatial_position[1]]]

\* the stems of r are one per contributor, in the same order, each keyed by
\* the player's id and of num_samples samples
StemPerContributor(r, num_samples) ==
    /\ Len(r.stems) = Len(r.contributors)
    /\ \A k \in 1 .. Len(r.stems) :
          /\ r.stems[k].id = r.contributors[k]
          /\ Len(r.stems[k].track) = num_samples
          /\ \A j \in 1 .. Len(r.stems) : r.stems[j].id = r.stems[k].id => j = k

\* C15: a render_ensemble call with return_stems that returns hands back one
\* mono stem of int(duration x sample_rate) samples for exactly the players
\* that contributed to the mix, keyed by player id, and the stems are the
\* ones the same call returns when every player's gain and pan are the
\* defaults: the tracks before gain and spatialization.
C15_StemsArePreGainTracks ==
    [][(render'.status = "ok" /\ render.status = "none" /\ render'.return_stems) =>
          /\ StemPerContributor(render', SamplesOf(render'.duration, sample_rate))
          /\ render'.stems =
                render_ensemble(NeutralMix(players), pattern, render'.duration,
                                render'.spatial, TRUE, instruments, membraneDb, bank,
                                sample_rate, rng, pyrng).stems]_vars

\* a returned render with stems of two players or more, one of them with a
\* changed gain and pan and a stem that is not silent
C15_Witness ==
    /\ render.status = "ok"
    /\ render.return_stems
    /\ Len(render.stems) >= 2
    /\ \E k \in 1 .. Len(render.stems) :
          /\ players[render.stems[k].id].gain = 500
          /\ players[render.stems[k].id].pan = 1000
          /\ PeakOf(render.stems[k].track) > 0

-----------------------------------------------------------------------------
(* Properties of Player (specification SpecCalls) *)

\* the noise term of the recorded get_velocity_for_intensity call
CallNoise ==
    Normal(call.rng, ((1000 - players[call.player].skill_level) * 50) \div 1000)

\* C17: get_velocity_for_intensity returns a value in [0,1] for every
\* intensity and noise draw; when the noise term is 0 and the intensity is in
\* [0,1] the value is min + intensity x (max - min), lies in [min,max] and is
\* at least the value for every smaller intensity.
C17_VelocityInRange ==
    call.op = "get_velocity_for_intensity" =>
        LET p == players[call.player]
        IN  /\ call.result >= 0 /\ call.result <= 1000
            /\ (CallNoise = 0 /\ call.intensity >= 0 /\ call.intensity <= 1000) =>
                  /\ call.result = p.dynamic_range[1]
                        + IntTrunc(call.intensity * (p.dynamic_range[2] - p.dynamic_range[1]),
                                   1000)
                  /\ call.result >= p.dynamic_range[1]
                  /\ call.result <= p.dynamic_range[2]
                  /\ \A j \in CallIntensities :
                        (j >= 0 /\ j <= call.intensity) =>
                            get_velocity_for_intensity(p, j, call.rng) <= call.result

\* the lead player (dynamic range 0.6 to 1.0) called with intensity 1.0 and
\* a noise term above 0
C17_Witness ==
    /\ call.op = "get_velocity_for_intensity"
    /\ call.player = "P1"
    /\ call.intensity = 1000
    /\ CallNoise > 0
    /\ call.result = 1000

\* C18: every player of the ensemble has dynamic_range min <= max and a pan
\* that is not None and equals spatial_position[0] (no factory passes pan);
\* a Player constructed without pan has pan = spatial_position[0], one
\* constructed with a pan, 0.0 included, keeps it.
C18_PlayerDataInvariants ==
    /\ \A id \in DOMAIN players :
          /\ players[id].dynamic_range[1] <= players[id].dynamic_range[2]
          /\ players[id].pan # Unset
          /\ players[id].pan = players[id].spatial_position[1]
    /\ call.op = "Player" =>
          /\ call.result.pan # Unset
          /\ call.result.dynamic_range[1] <= call.result.dynamic_range[2]
          /\ call.result.pan = IF call.pan = Unset THEN call.spatial_position[1]
                               ELSE call.pan

\* a Player constructed with pan 0.0 away from the centre of the stage
C18_Witness ==
    /\ Cardinality(DOMAIN players) = 6
    /\ call.op = "Player"
    /\ call.pan = 0
    /\ call.spatial_position[1] # 0
    /\ call.result.pan = 0

-----------------------------------------------------------------------------
(* The wind player (specification Spec) *)

\* the players whose instrument is neither a chenda nor a cymbal
WindPlayers == {id \in DOMAIN players : players[id].instrument_type \notin {"chenda", "elathaalam"}}

\* no list of the dictionary holds an event assigned to a wind player
NoWindAssignment(lists) ==
    \A id \in DOMAIN lists : \A k \in 1 .. Len(lists[id]) :
        lists[id][k].assigned_player \notin WindPlayers

\* C16: while and after orchestrate_sequence runs, under every strategy, the
\* pattern holds no event in wind_events and no event assigned to the wind
\* player; and in every render that returned, the track of a player whose
\* instrument is neither chenda nor cymbal holds only zeros.
C16_WindIsSilentPlaceholder ==
    /\ Orchestrating =>
          /\ \A id \in DOMAIN pattern.wind_events : pattern.wind_events[id] = <<>>
          /\ NoWindAssignment(pattern.chenda_events)
          /\ NoWindAssignment(pattern.cymbal_events)
    /\ render.status = "ok" =>
          \A k \in 1 .. Len(render.stems) :
              render.stems[k].id \in WindPlayers =>
                  \A j \in 1 .. Len(render.stems[k].track) : render.stems[k].track[j] = 0

\* a returned render in which the wind player was handed a non-REST event
\* and a chenda player sounds
C16_Witness ==
    /\ render.status = "ok"
    /\ "P6" \in DOMAIN pattern.wind_events
    /\ \E k \in 1 .. Len(pattern.wind_events["P6"]) :
          pattern.wind_events["P6"][k].sound_category # "REST"
    /\ \E k \in 1 .. Len(render.synth) : render.synth[k].assigned_player = "P6"
    /\ \E k \in 1 .. Len(render.stems) : render.stems[k].id = "P6"
    /\ \E k \in 1 .. Len(render.stems) : PeakOf(render.stems[k].track) > 0

-----------------------------------------------------------------------------
(* NaN in the post-processing stages (specification SpecCalls) *)

\* the buffer a recorded stage call returned
StageResult == IF call.op = "run_board" THEN call.result ELSE call.result.buf

\* C19: a buffer with NaN samples handed to the mixer's material-effects
\* stages (pitch bend, wood character, contact point) or to an FX board
\* comes back as silence of the same length, so no NaN goes on to the
\* player track.
C19_NaNBecomesSilence ==
    (call.op \in {"apply_material_effects", "run_board"} /\ HasNaN(call.audio)) =>
        /\ call.op = "apply_material_effects" => call.result.status = "ok"
        /\ StageResult = Zeros(Len(call.audio))

-----------------------------------------------------------------------------
(* Wood brightness (specification SpecCalls) *)

\* C20: of two woods that differ only in density, the one with the greater
\* density has the strictly smaller resonance_brightness.
C20_BrightnessStrictlyDecreasing ==
    call.op = "resonance_brightness" =>
        /\ call.density[1] < call.density[2] => call.result[1] > call.result[2]
        /\ call.density[1] > call.density[2] => call.result[1] < call.result[2]

-----------------------------------------------------------------------------
(* Player selection, step by step (specification Spec) *)

\* the id of the player of the ensemble with the role
WithRole(role) == CHOOSE id \in DOMAIN players : players[id].role = role

\* the chenda players in ensemble order
ChendaOrder == SelectSeq(PlayerOrder, LAMBDA id : id \in DOMAIN players /\ players[id].instrument_type = "chenda")

\* the step is iteration i = oi of the loop of strategy strat
IterationOf(strat) == opc = "loop" /\ strategy = strat /\ oi' = oi + 1

\* the step appends to the chenda lists of exactly the players ids one fresh
\* copy each of input event e, assigned to its player, and leaves every
\* other chenda list as it was
AssignedExactlyTo(ids, e) ==
    /\ DOMAIN pattern'.chenda_events = DOMAIN pattern.chenda_events
    /\ \A id \in DOMAIN pattern.chenda_events :
          IF id \in ids
          THEN /\ Len(pattern'.chenda_events[id]) = Len(pattern.chenda_events[id]) + 1
               /\ SubSeq(pattern'.chenda_events[id], 1, Len(pattern.chenda_events[id]))
                     = pattern.chenda_events[id]
               /\ CopyOf(pattern'.chenda_events[id][Len(pattern'.chenda_events[id])], e)
               /\ pattern'.chenda_events[id][Len(pattern'.chenda_events[id])].assigned_player = id
          ELSE pattern'.chenda_events[id] = pattern.chenda_events[id]

\* twice the claimed complexity of the input times its length, in
\* thousandths: (non-REST fraction + (max - min intensity)) x len
TwiceComplexityTimesLen(evs) ==
    LET non_rest == {k \in 1 .. Len(evs) : evs[k].sound_category # "REST"}
        top == CHOOSE k \in non_rest : \A j \in non_rest : evs[j].intensity <= evs[k].intensity
        low == CHOOSE k \in non_rest : \A j \in non_rest : evs[j].intensity >= evs[k].intensity
    IN  IF non_rest = {} THEN 0
        ELSE 1000 * Cardinality(non_rest) + (evs[top].intensity - evs[low].intensity) * Len(evs)

\* the player the rules of the traditional strategy name for event e at
\* input position i
TraditionalChoice(e, i) ==
    IF e.intensity > 800 /\ e.stroke_type \in {"Dheem", "Dha"} THEN WithRole("chenda_accent")
    ELSE IF e.intensity > 800 THEN WithRole("chenda_lead")
    ELSE IF i % 4 = 0 /\ e.intensity < 600 THEN WithRole("chenda_rhythm")
    ELSE IF TwiceComplexityTimesLen(events) > 2 * 700 * Len(events) THEN WithRole("chenda_lead")
    ELSE <<WithRole("chenda_lead"), WithRole("chenda_rhythm"), WithRole("chenda_accent")>>[(i % 3) + 1]

\* C22: under the traditional strategy the complexity is 0 for an empty
\* input and otherwise 0.5 x (non-REST fraction) + 0.5 x (max - min
\* intensity), within [0,1]; and the iteration for input position i assigns
\* a non-REST event to exactly one chenda player, the one the first matching
\* rule names, and a REST event to none.
C22_TraditionalRules ==
    /\ [](((opc \in {"loop", "done"}) /\ strategy = "traditional") =>
             /\ complexity.num >= 0 /\ complexity.num <= 1000 * complexity.den
             /\ complexity.num * 2 * Max2(Len(events), 1)
                   = complexity.den * TwiceComplexityTimesLen(events))
    /\ [][IterationOf("traditional") =>
             IF events[oi + 1].sound_category = "REST"
             THEN AssignedExactlyTo({}, events[oi + 1])
             ELSE AssignedExactlyTo({TraditionalChoice(events[oi + 1], oi)}, events[oi + 1])]_vars

\* the input position an assigned event came from
PositionOf(a) == (a.time + 250000) \div 500000

\* a finished traditional orchestration of an input of complexity above 0.7
\* in which the rhythm player holds a soft downbeat, the lead a loud stroke
\* and, by the complexity rule, a stroke off the lead's turn of the rotation
C22_Witness ==
    /\ opc = "done" /\ strategy = "traditional"
    /\ complexity.num > 700 * complexity.den
    /\ \E k \in 1 .. Len(pattern.chenda_events["P1"]) :
          /\ pattern.chenda_events["P1"][k].intensity <= 800
          /\ PositionOf(pattern.chenda_events["P1"][k]) % 3 # 0
    /\ \E id \in DOMAIN pattern.chenda_events : \E k \in 1 .. Len(pattern.chenda_events[id]) :
          pattern.chenda_events[id][k].intensity > 800

-----------------------------------------------------------------------------
(* Cymbal hits, step by step (specification Spec) *)

\* the step appends n hits (intensity 0.6, category NAM) to the list of
\* every cymbal player and nothing else
CymbalHitsAdded(n) ==
    /\ DOMAIN pattern'.cymbal_events = DOMAIN pattern.cymbal_events
    /\ \A id \in DOMAIN pattern.cymbal_events :
          /\ Len(pattern'.cymbal_events[id]) = Len(pattern.cymbal_events[id]) + n
          /\ SubSeq(pattern'.cymbal_events[id], 1, Len(pattern.cymbal_events[id]))
                = pattern.cymbal_events[id]
          /\ \A k \in Len(pattern.cymbal_events[id]) + 1 .. Len(pattern'.cymbal_events[id]) :
                /\ pattern'.cymbal_events[id][k].intensity = 600
                /\ pattern'.cymbal_events[id][k].sound_category = "NAM"
                /\ pattern'.cymbal_events[id][k].assigned_player = id

\* the iteration of strat for input position oi adds one hit per cymbal
\* player when oi is a multiple of every, and none otherwise
HitsEvery(strat, every) ==
    IterationOf(strat) => CymbalHitsAdded(IF oi % every = 0 THEN 1 ELSE 0)

\* C23: each cymbal player receives exactly one hit at every input position
\* i with i % 4 = 0 under traditional and unison, with i % 8 = 0 under
\* dynamic, and none at any other position.
C23_CymbalHitsByPosition ==
    [][HitsEvery("traditional", 4) /\ HitsEvery("unison", 4) /\ HitsEvery("dynamic", 8)]_vars

-----------------------------------------------------------------------------
(* The dynamic, antiphonal and layered strategies (specification Spec) *)

\* the chenda players whose list is currently shortest
ShortestLists ==
    {id \in DOMAIN pattern.chenda_events :
        \A x \in DOMAIN pattern.chenda_events :
            Len(pattern.chenda_events[id]) <= Len(pattern.chenda_events[x])}

\* the first player in ensemble order whose list is currently shortest
FirstShortest ==
    ChendaOrder[CHOOSE k \in 1 .. Len(ChendaOrder) :
                    /\ ChendaOrder[k] \in ShortestLists
                    /\ \A j \in 1 .. k - 1 : ChendaOrder[j] \notin ShortestLists]

\* the number of non-REST events among the first n input events
NonRestBefore(n) == Cardinality({k \in 1 .. n : events[k].sound_category # "REST"})

\* C24: under the dynamic strategy a non-REST event is assigned to exactly
\* one chenda player, the first in ensemble order whose list is shortest;
\* that player is number k mod 3 for the k-th non-REST event (from 0); the
\* lengths of two chenda lists never differ by more than 1; a REST event is
\* assigned to no one.
C24_DynamicBalancesLoad ==
    /\ []((opc \in {"loop", "done"} /\ strategy = "dynamic") =>
             \A a, b \in DOMAIN pattern.chenda_events :
                 Len(pattern.chenda_events[a]) - Len(pattern.chenda_events[b]) <= 1)
    /\ [][IterationOf("dynamic") =>
             IF events[oi + 1].sound_category = "REST"
             THEN AssignedExactlyTo({}, events[oi + 1])
             ELSE /\ AssignedExactlyTo({FirstShortest}, events[oi + 1])
                  /\ FirstShortest = ChendaOrder[(NonRestBefore(oi) % 3) + 1]]_vars

\* a finished dynamic orchestration of an input with a rest ahead of at least
\* four strokes: the first chenda player was chosen a second time
C24_Witness ==
    /\ opc = "done" /\ strategy = "dynamic"
    /\ \E k \in 1 .. Len(events) : events[k].sound_category = "REST" /\ NonRestBefore(k) < 3
    /\ Len(pattern.chenda_events["P1"]) = 2
    /\ Len(pattern.chenda_events["P2"]) = 1
    /\ Len(pattern.chenda_events["P3"]) = 1

\* the player the antiphonal strategy names for input position i
AntiphonalChoice(i) ==
    IF (i \div 4) % 2 = 0 THEN WithRole("chenda_lead")
    ELSE IF i % 2 = 0 THEN WithRole("chenda_rhythm")
    ELSE WithRole("chenda_accent")

\* C25: under the antiphonal strategy a non-REST event at input position i
\* is assigned to exactly one chenda player - the lead when the phrase index
\* i div 4 is even, otherwise the rhythm player for even i and the accent
\* player for odd i - a REST event to none, and no cymbal hit is added.
C25_AntiphonalPhrases ==
    [][IterationOf("antiphonal") =>
          /\ CymbalHitsAdded(0)
          /\ IF events[oi + 1].sound_category = "REST"
             THEN AssignedExactlyTo({}, events[oi + 1])
             ELSE AssignedExactlyTo({AntiphonalChoice(oi)}, events[oi + 1])]_vars

\* a finished antiphonal orchestration in which the lead played the first
\* phrase and the rhythm and the accent player the second one
C25_Witness ==
    /\ opc = "done" /\ strategy = "antiphonal"
    /\ Len(events) = 6
    /\ Len(pattern.chenda_events["P1"]) >= 3
    /\ Len(pattern.chenda_events["P2"]) + Len(pattern.chenda_events["P3"]) >= 1
    /\ \A id \in DOMAIN pattern.cymbal_events : pattern.cymbal_events[id] = <<>>

\* the chenda players, by index 0, 1, 2, whose entry point of the layered
\* strategy is at or before input position i
EnteredBy(i) ==
    {ChendaOrder[k + 1] : k \in {j \in 0 .. 2 :
        i >= <<0, Len(events) \div 4, Len(events) \div 2>>[j + 1]}}

\* the input positions whose copies the list holds, in order
PositionsIn(list) == [k \in 1 .. Len(list) |-> PositionOf(list[k])]

\* C26: under the layered strategy the iteration for a non-REST event at
\* input position i appends a copy for exactly the chenda players k with
\* i >= entry_k, entry = [0, len div 4, len div 2], and a REST event gives
\* none; so the positions a player holds are those of the earlier player
\* from its own entry point on, and the lists are nested.
C26_LayeredEntries ==
    /\ [][IterationOf("layered") =>
             /\ CymbalHitsAdded(0)
             /\ IF events[oi + 1].sound_category = "REST"
                THEN AssignedExactlyTo({}, events[oi + 1])
                ELSE AssignedExactlyTo(EnteredBy(oi), events[oi + 1])]_vars
    /\ []((opc \in {"loop", "done"} /\ strategy = "layered") =>
             \A k \in 1 .. Len(ChendaOrder) - 1 :
                 LET outer == PositionsIn(pattern.chenda_events[ChendaOrder[k]])
                     inner == PositionsIn(pattern.chenda_events[ChendaOrder[k + 1]])
                 IN  /\ Len(inner) <= Len(outer)
                     /\ inner = SubSeq(outer, Len(outer) - Len(inner) + 1, Len(outer)))

\* a finished layered orchestration in which the three players entered at
\* three different positions
C26_Witness ==
    /\ opc = "done" /\ strategy = "layered"
    /\ Len(pattern.chenda_events["P1"]) > Len(pattern.chenda_events["P2"])
    /\ Len(pattern.chenda_events["P2"]) > Len(pattern.chenda_events["P3"])
    /\ Len(pattern.chenda_events["P3"]) > 0

-----------------------------------------------------------------------------
(* The input list of orchestrate_sequence (specification Spec) *)

\* the entries the step appends to the list of chenda player id
AppendedTo(id) ==
    SubSeq(pattern'.chenda_events[id], Len(pattern.chenda_events[id]) + 1,
           Len(pattern'.chenda_events[id]))

\* C29: orchestrate_sequence never modifies its input - from its start to
\* its return the input list keeps its value, and every input event has
\* assigned_player, velocity and contact_point unset - and whatever an
\* iteration appends for a chenda player is a fresh event made from the
\* untouched input event: it carries the input's stroke_type,
\* sound_category, intensity and duration, names that player, and is the
\* result of assigning the original input event to that player, whichever
\* other players received a copy before.
C29_InputNeverModified ==
    /\ [][opc = "loop" => events' = events]_vars
    /\ [](Orchestrating =>
             \A k \in 1 .. Len(events) :
                 /\ events[k].assigned_player = None
                 /\ events[k].velocity = Unset
                 /\ events[k].contact_point = Unset)
    /\ [][(opc = "loop" /\ oi' = oi + 1) =>
             \A id \in DOMAIN pattern.chenda_events :
                 \A k \in 1 .. Len(AppendedTo(id)) :
                     /\ CopyOf(AppendedTo(id)[k], events[oi + 1])
                     /\ AppendedTo(id)[k].assigned_player = id
                     /\ \E g \in RngStates :
                            AppendedTo(id)[k]
                                = assign_event_to_player(events[oi + 1], players[id], g).event]_vars

\* a finished unison orchestration: the three players hold copies of the
\* first input event that differ in their humanized values, and the input
\* event is as it was composed
C29_Witness ==
    /\ opc = "done" /\ strategy = "unison"
    /\ Len(events) >= 1
    /\ events[1].sound_category # "REST"
    /\ events[1].time = 0
    /\ events[1].assigned_player = None
    /\ \A id \in DOMAIN pattern.chenda_events :
           /\ Len(pattern.chenda_events[id]) >= 1
           /\ pattern.chenda_events[id][1].assigned_player = id
    /\ pattern.chenda_events["P1"][1].velocity # pattern.chenda_events["P2"][1].velocity

-----------------------------------------------------------------------------
(* Specification SpecTrack: one _render_player_track call taken event by    *)
(* event.  The events carry any time, before, inside and past the track;    *)
(* the sound a synthesize function returns for an event is any short        *)
(* buffer, the empty one included.                                          *)

\* the track durations, in microseconds, at 4 samples a second
TrackDurations == {0, 500000, 750000}

\* the events of a player's list
TrackEvents ==
    {StrokeEvent(t, "Ta", "THAAM", 700, 400000) :
        t \in {0 - 600000, 0, 250000, 500000, 2000000}}
        \cup {StrokeEvent(250000, ".", "REST", 0, 400000)}

\* the sounds a synthesize function returns
TrackSounds == {<<>>, <<300>>, <<300, 0 - 1500>>, <<100, 200, 400>>}

\* num_samples = int(duration * sample_rate); track = np.zeros(num_samples)
InitTrack ==
    /\ EnsembleIs(StandardMelam)
    /\ events = <<>>
    /\ strategy = "traditional"
    /\ opc = "idle"
    /\ oi = 0
    /\ complexity = [num |-> 0, den |-> 1]
    /\ pattern = OrchestrationPattern
    /\ sample_rate = 4
    /\ bank = StandardBank
    /\ nUpdates = 0
    /\ render = NoRender
    /\ sound = NoSound
    /\ DeskIdle
    /\ \E duration \in TrackDurations :
          call = [op |-> "render_player_track", at |-> "loop", handled |-> 0,
                  num_samples |-> SamplesOf(duration, 4),
                  track |-> Zeros(SamplesOf(duration, 4)),
                  event |-> StrokeEvent(0, ".", "REST", 0, 0), sound |-> <<>>]

\* one iteration of the for loop of _render_player_track: `snd` is what the
\* synthesize function returned for `event`
RenderTrackStep(event, snd) ==
    /\ call.op = "render_player_track"
    /\ call.at = "loop"
    /\ call.handled < MaxTrackEvents
    /\ call' = [call EXCEPT
                   !.handled = @ + 1,
                   !.event = event,
                   !.sound = IF event.sound_category = "REST" THEN <<>> ELSE snd,
                   !.track = IF event.sound_category = "REST" THEN @
                             ELSE PlaceSound(@, snd, event.time, sample_rate)]
    /\ UNCHANGED <<rng, pyrng, factoryVars, orchVars, sample_rate, bank, mixVars, sound, deskVars>>

\* return track
RenderTrackReturn ==
    /\ call.op = "render_player_track"
    /\ call.at = "loop"
    /\ call' = [call EXCEPT !.at = "returned"]
    /\ UNCHANGED <<rng, pyrng, factoryVars, orchVars, sample_rate, bank, mixVars, sound, deskVars>>

NextTrack ==
    \/ \E event \in TrackEvents, snd \in TrackSounds : RenderTrackStep(event, snd)
    \/ RenderTrackReturn

SpecTrack == InitTrack /\ [][NextTrack]_vars

\* the start sample the loop body computes for the event just handled
StartOfHandled ==
    IF call'.event.time < 0 THEN 0
    ELSE (call'.event.time * sample_rate) \div 1000000

\* the sample of the sound just handled that lands on sample j (from 0) of
\* the track, 0 where none does
Landing(j) ==
    IF j >= StartOfHandled /\ j - StartOfHandled < Len(call'.sound)
    THEN call'.sound[j - StartOfHandled + 1] ELSE 0

\* C27: an iteration of _render_player_track adds the sound to the track
\* from start = max(0, int(time x sample_rate)) on and nowhere else: the
\* samples 0 .. num_samples - 1 each grow by the sample of the sound landing
\* on them, so a sound of negative event time lands from sample 0 on, a
\* sound running past the end loses its tail, and an event whose start is
\* at or past num_samples, or whose sound is empty, leaves the track as it
\* was; the track has num_samples = int(duration x sample_rate) samples
\* throughout.
C27_PlacementClamped ==
    /\ [](call.op = "render_player_track" =>
             /\ Len(call.track) = call.num_samples
             /\ call.num_samples \in {0, 2, 3})
    /\ [][(call.op = "render_player_track" /\ call'.handled = call.handled + 1) =>
             /\ Len(call'.track) = call.num_samples
             /\ \A j \in 0 .. call.num_samples - 1 :
                    call'.track[j + 1] = call.track[j + 1] + Landing(j)
             /\ (StartOfHandled >= call.num_samples \/ call'.sound = <<>>) =>
                    call'.track = call.track]_vars

\* a returned track whose last event had a negative time and a sound longer
\* than the track: the head sits at sample 0, the tail was cut off
C27_Witness ==
    /\ call.op = "render_player_track"
    /\ call.at = "returned"
    /\ call.handled = MaxTrackEvents
    /\ call.event.time < 0
    /\ Len(call.sound) > call.num_samples
    /\ call.num_samples = 2
    /\ call.track[1] # 0

-----------------------------------------------------------------------------
(* The mastering chain (specification SpecMix) *)

\* the summed buses of the render_ensemble call the step makes, before the
\* mastering chain
PreMaster ==
    RenderPlayers(players, pattern, PatternKeys(pattern), 1,
                  EmptyMix(SamplesOf(render'.duration, sample_rate), render'.spatial,
                           rng, pyrng),
                  instruments, membraneDb, bank, sample_rate, render'.spatial, rng, pyrng)

\* tanh(bus x drive), then the safety normalize
SaturatedBy(bus, drive) ==
    Normalize([c \in 1 .. Len(bus) |->
                 Array([k \in 1 .. Len(bus[c]) |->
                         Tanh(IntTrunc(bus[c][k] * drive, 1000))])])

\* the master of a bus with pre-saturation peak `peak_pre` when the drive is
\* 1.5 below a peak of 0.5 and 1.0 from there on, an all-zero bus untouched
MasteredByPeak(bus, peak_pre) ==
    IF peak_pre = 0 THEN bus
    ELSE SaturatedBy(bus, IF peak_pre < 500 THEN 1500 ELSE 1000)

\* the render_ensemble call of the step returned a master for a bus of the
\* given kind
Mastered(spatial) ==
    /\ render.status = "none"
    /\ render'.status = "ok"
    /\ render'.spatial = spatial

\* C28: the master render_ensemble returns is tanh(bus x drive) of the
\* summed bus, with drive 1.5 when the pre-saturation peak is below 0.5 and
\* 1.0 otherwise, for the stereo and for the mono bus, and an all-zero bus
\* is returned as it is.
C28_DriveByPeak ==
    [][\A spatial \in BOOLEAN :
          Mastered(spatial) =>
              render'.master = MasteredByPeak(PreMaster.bus, BusPeak(PreMaster.bus))]_vars

-----------------------------------------------------------------------------
(* Specification SpecRecorder: the control panel calls the start and stop   *)
(* methods of its AudioRecorder in any order; a library call may raise      *)

\* the method call `op` with its arguments ended as o
RecorderCall(op, filename, fail, o) ==
    /\ recorder' = o.recorder
    /\ call' = [op |-> op, filename |-> filename, fail |-> fail, result |-> o.result,
                raised |-> o.raised, stream_closed |-> o.stream_closed,
                file_closed |-> o.file_closed]
    /\ UNCHANGED <<rng, pyrng, factoryVars, orchVars, sample_rate, bank, mixVars, sound,
                   history>>

StartMonitoring(fail) ==
    RecorderCall("start_monitoring", None, fail, start_monitoring(recorder, fail))

StopMonitoring(fail) ==
    RecorderCall("stop_monitoring", None, fail, stop_monitoring(recorder, fail))

StartRecording(filename, fail) ==
    RecorderCall("start_recording", filename, fail,
                 start_recording(recorder, "recordings", filename, fail))

StopRecording(fail) ==
    RecorderCall("stop_recording", None, fail, stop_recording(recorder, fail))

NextRecorder ==
    \/ \E fail \in FailurePoints : StartMonitoring(fail)
    \/ \E fail \in FailurePoints : StopMonitoring(fail)
    \/ \E filename \in {None, "take.wav"}, fail \in FailurePoints :
          StartRecording(filename, fail)
    \/ \E fail \in FailurePoints : StopRecording(fail)

SpecRecorder == Init /\ [][NextRecorder]_vars

\* the step is a call of the recorder method `op`
Calls(op) == call'.op = op /\ <<recorder, call>>' # <<recorder, call>>

Idle == ~recorder.is_recording /\ ~recorder.is_monitoring

-----------------------------------------------------------------------------
(* Specification SpecUndo: execute, undo, redo and clear calls on one       *)
(* UndoStack, in any order; a command's execute() or undo() may raise       *)

\* the command objects handed to execute
Commands == 1 .. MaxStackSize + 1

InitUndo ==
    /\ EnsembleIs(StandardMelam)
    /\ events = <<>>
    /\ strategy = "traditional"
    /\ opc = "idle"
    /\ oi = 0
    /\ complexity = [num |-> 0, den |-> 1]
    /\ pattern = OrchestrationPattern
    /\ sample_rate = 4
    /\ bank = StandardBank
    /\ nUpdates = 0
    /\ render = NoRender
    /\ sound = NoSound
    /\ call = NoCall
    /\ recorder = AudioRecorder
    /\ \E max_size \in 0 .. MaxStackSize : history = UndoStack(max_size)

\* the UndoStack call `op` ended as o
HistoryCall(op, command, o) ==
    /\ history' = o.history
    /\ call' = [op |-> op, command |-> command, result |-> o.result, raised |-> o.raised]
    /\ UNCHANGED <<rng, pyrng, factoryVars, orchVars, sample_rate, bank, mixVars, sound,
                   recorder>>

Execute(command, raises) ==
    HistoryCall("execute", command, execute(history, command, raises))

Undo(raises) == HistoryCall("undo", 0, undo(history, raises))

Redo(raises) == HistoryCall("redo", 0, redo(history, raises))

Clear == HistoryCall("clear", 0, clear(history))

NextUndo ==
    \/ \E command \in Commands, raises \in BOOLEAN : Execute(command, raises)
    \/ \E raises \in BOOLEAN : Undo(raises)
    \/ \E raises \in BOOLEAN : Redo(raises)
    \/ Clear

SpecUndo == InitUndo /\ [][NextUndo]_vars

\* the step is a call of the UndoStack method `op`
HistoryCalls(op) == call'.op = op /\ <<history, call>>' # <<history, call>>

\* C30: undo_stack never holds more than max_size commands: an execute that
\* overflows it drops the oldest command and keeps the rest in order, and a
\* redo pushes only where there is room; redo_stack is empty when an execute
\* has returned; undo on an empty undo_stack and redo on an empty redo_stack
\* return False and leave both stacks as they were.
C30_HistoryBounded ==
    /\ [](Len(history.undo_stack) <= history.max_size)
    /\ [][/\ (HistoryCalls("execute") /\ ~call'.raised)
                => /\ history'.redo_stack = <<>>
                   /\ Len(history.undo_stack) = history.max_size
                         => history'.undo_stack
                               = Tail(Append(history.undo_stack, call'.command))
                   /\ Len(history.undo_stack) < history.max_size
                         => history'.undo_stack
                               = Append(history.undo_stack, call'.command)
          /\ (HistoryCalls("redo") /\ call'.result = "True")
                => /\ Len(history.undo_stack) < history.max_size
                   /\ history'.undo_stack
                         = Append(history.undo_stack, history.redo_stack[Len(history.redo_stack)])
          /\ (call'.op = "undo" /\ call' # call /\ history.undo_stack = <<>>)
                => (call'.result = "False" /\ history' = history)
          /\ (call'.op = "redo" /\ call' # call /\ history.redo_stack = <<>>)
                => (call'.result = "False" /\ history' = history)]_vars

\* a full stack took one more command and lost its oldest one
C30_Witness ==
    /\ call.op = "execute"
    /\ ~call.raised
    /\ history.max_size = MaxStackSize
    /\ history.undo_stack = <<2, 3>>
    /\ history.redo_stack = <<>>

=============================================================================
